---------------------------- MODULE Spec2Model ----------------------------
(***************************************************************************)
(* A model of the serializer of include/bitsery/details: the archives of   *)
(* archive.h (lazy_vector_memory_output_archive, memory_output_archive,    *)
(* memory_view_input_archive, memory_input_archive), the free serialize    *)
(* overloads of archive.h, and the polymorphic registry of registry.h.     *)
(*                                                                         *)
(* Bytes are numbers 0..255, a std::vector<unsigned char> is a sequence of *)
(* bytes.  A thrown exception is the field err of an archive record: every *)
(* operator returns its archive unchanged once err is set, as the code     *)
(* after a throw does not run.                                             *)
(***************************************************************************)
EXTENDS Integers, Sequences, FiniteSets, TLC

VARIABLES
    data,               \* the std::vector<unsigned char> both archives are built over
    out_m_size,         \* lazy_vector_memory_output_archive::m_size
    in_m_offset,        \* memory_view_input_archive::m_offset of the input archive
    data0,              \* (history) the vector's content when the archives were constructed
    hist,               \* (history) the top-level calls made, oldest first
    view,               \* a memory_view_input_archive over an array of its own
    reg_saving,         \* registry<lazy_vector_memory_output_archive>
    reg_loading,        \* registry<memory_view_input_archive>
    addlog,             \* (history) the add calls that returned, oldest first
    last,               \* (history) the last polymorphic save or load and its outcome
    mutex,              \* registry::m_shared_mutex of each registry: writer and readers
    frames,             \* of each thread, the registry calls it is in, outermost first
    calls               \* (history) the number of registry calls started by threads

vars == <<data, out_m_size, in_m_offset, data0, hist, view,
          reg_saving, reg_loading, addlog, last, mutex, frames, calls>>

archive_vars == <<data, out_m_size, in_m_offset, data0, hist, view>>
registry_vars == <<reg_saving, reg_loading, addlog, last>>
thread_vars == <<mutex, frames, calls>>

---------------------------------------------------------------------------
(* Sizes of the types on the wire.                                         *)

SizeOfSizeType == 4         \* using size_type = std::uint32_t
SizeOfIdType == 8           \* using id_type = std::uint64_t
SizeOfInt == 4              \* int m_x, m_y of the example's point
SizeOfChar == 1             \* the elements of std::string

\* Bounds of the model.
MaxOps == 3                 \* top-level calls on the shared vector
MaxAdds == 2                \* registrations made on the registries
MaxCalls == 3               \* registry calls started by the threads
MaxNesting == 2             \* registry calls a thread is in, one inside the other

NoError == "none"

---------------------------------------------------------------------------
(* Object representation of fundamentals: the bytes std::copy_n moves.     *)
(* The host is little-endian (the spec's scenarios print 39 05 00 00 for   *)
(* 1337).                                                                  *)

RECURSIVE ToBytes(_, _)
ToBytes(x, n) ==
    IF n = 0 THEN <<>> ELSE <<x % 256>> \o ToBytes(x \div 256, n - 1)

RECURSIVE FromBytes(_)
FromBytes(bs) ==
    IF bs = <<>> THEN 0 ELSE Head(bs) + 256 * FromBytes(Tail(bs))

RECURSIVE Flatten(_)
Flatten(ss) == IF ss = <<>> THEN <<>> ELSE Head(ss) \o Flatten(Tail(ss))

Take(s, n) == SubSeq(s, 1, IF n < Len(s) THEN n ELSE Len(s))
Drop(s, n) == SubSeq(s, n + 1, Len(s))

\* std::vector<unsigned char>::resize(n): truncates, or appends zero bytes.
VectorResize(v, n) == [i \in 1..n |-> IF i <= Len(v) THEN v[i] ELSE 0]

\* std::copy_n(src, n, v.data() + off)
CopyInto(v, off, bs) ==
    [i \in 1..Len(v) |->
        IF i > off /\ i <= off + Len(bs) THEN bs[i - off] ELSE v[i]]

---------------------------------------------------------------------------
(* Types.  A type is a tuple whose first component names the overload of   *)
(* serialize_item / serialize that takes it.                               *)

TChar == <<"fundamental", SizeOfChar>>
TInt == <<"fundamental", SizeOfInt>>
TSize == <<"fundamental", SizeOfSizeType>>
TId == <<"fundamental", SizeOfIdType>>
TEnum == <<"enum", SizeOfChar>>                 \* enum class : unsigned char
TClass(name) == <<"class", name>>
TPoint == TClass("point")
TPerson == TClass("person")
TStudent == TClass("student")
\* a container with size/begin/end/resize: element, random-access iterator?, data()?
TResizable(elem, ra, hd) == <<"resizable", elem, ra, hd>>
TString == TResizable(TChar, TRUE, TRUE)        \* std::string
TVectorInt == TResizable(TInt, TRUE, TRUE)      \* std::vector<int>
TVectorEnum == TResizable(TEnum, TRUE, TRUE)    \* std::vector<enum>
TListInt == TResizable(TInt, FALSE, FALSE)      \* std::list<int>
TVectorPoint == TResizable(TPoint, TRUE, TRUE)  \* std::vector<point>
\* a container with size/begin/end/key_type and no resize: value_type, kind
TAssociative(elem, kind) == <<"associative", elem, kind>>
TSetInt == TAssociative(TInt, "set")                  \* std::set<int>
TMapIntInt == TAssociative(<<"pair", TInt, TInt>>, "map")  \* std::map<int, int>
TArray(elem, n) == <<"array", elem, n>>          \* std::array<elem, n>
TPair(a, b) == <<"pair", a, b>>
TTuple(ts) == <<"tuple", ts>>
TUnique(t) == <<"unique_ptr", t>>
TShared(t) == <<"shared_ptr", t>>
TWrapper(t) == <<"polymorphic_wrapper", t>>
TBinary(elem) == <<"binary", elem>>

\* The classes of examples/archive.cpp.  A class value is <<name, fields>>,
\* name being the dynamic type of the object.
PolymorphicClasses == {"person", "student"}
IsPolymorphic(t) == t[1] = "class" /\ t[2] \in PolymorphicClasses
\* std::is_base_of<Base, Derived> (reflexive)
IsBaseOf(base, derived) ==
    \/ base = derived
    \/ base = "person" /\ derived = "student"

\* std::is_class of a type of the model
IsClass(t) == t[1] \in {"class", "resizable", "associative", "array", "pair", "tuple",
                        "unique_ptr", "shared_ptr", "polymorphic_wrapper", "binary"}
IsFundamentalOrEnum(t) == t[1] \in {"fundamental", "enum"}


\* sizeof of a trivially copyable element
SizeOf(t) == t[2]

\* binary<Item>::size_in_bytes: m_count * sizeof(Item), returned as size_type
size_in_bytes(count, elem) ==
    FromBytes(ToBytes(count * SizeOf(elem), SizeOfSizeType))

\* static_cast<size_type>(container.size())
ToSizeType(n) == FromBytes(ToBytes(n, SizeOfSizeType))

---------------------------------------------------------------------------
(* lazy_vector_memory_output_archive.  A saving archive is a record        *)
(* [output, m_size, err]: the vector m_output points to, the write         *)
(* position, and the exception in flight.                                  *)

Throw(ar, e) == [ar EXCEPT !.err = e]

\* OutSerialize without "m_size += sizeof(item)".
OutSerialize_NoAdvance(ar, bs) ==
    IF ar.err # NoError THEN ar
    ELSE LET need == ar.m_size + Len(bs)
             grown == IF need > Len(ar.output)
                         THEN VectorResize(ar.output, (need * 3) \div 2)
                         ELSE ar.output
         IN  [ar EXCEPT !.output = CopyInto(grown, ar.m_size, bs)]

\* lazy_vector_memory_output_archive::serialize(Item &&) and
\* serialize(const void *, size_type): bs are the bytes copied.
OutSerialize(ar, bs) ==
    IF ar.err # NoError THEN ar
    ELSE LET need == ar.m_size + Len(bs)
             grown == IF need > Len(ar.output)
                         THEN VectorResize(ar.output, (need * 3) \div 2)
                         ELSE ar.output
         IN  [ar EXCEPT !.output = CopyInto(grown, ar.m_size, bs),
                        !.m_size = need]

\* fit_vector that leaves the vector as it is.
fit_vector_Keep(ar) == ar

\* lazy_vector_memory_output_archive::fit_vector
fit_vector(ar) == [ar EXCEPT !.output = VectorResize(ar.output, ar.m_size)]

\* operator[] assignment in place of emplace: the new value replaces the old.
Emplace_Assign(map, k, v) == (k :> v) @@ map

\* registry<Archive>::add(id, type_information_string, serialization_method):
\* both emplace calls keep an existing entry.  A serialization method is
\* named by the Type make_serialization_method<Archive, Type> was made for.
Emplace(map, k, v) == IF k \in DOMAIN map THEN map ELSE (k :> v) @@ map

add(reg, id, type_information_string, serialization_method) ==
    [id_to_method |-> Emplace(reg.id_to_method, id, serialization_method),
     type_to_id |-> Emplace(reg.type_to_id, type_information_string, id)]

\* add<Type>(id) that always hands over the serialization method of person.
add_type_Person(reg, Type, id) == add(reg, id, Type, "person")

\* registry::add<Type>(id) and add<Type, id>():
\* add(id, typeid(Type).name(), make_serialization_method<Archive, Type>())
add_type(reg, Type, id) == add(reg, id, Type, Type)

\* a call that no overload of serialize accepts does not compile: the
\* program with that call does not exist
NoMatchingFunction == "no_matching_function"

\* The resizable-container overloads that are viable for a saving archive
\* (archive.h:523-548 and 594-626) and for a loading one (488-518, 554-588).
SavingPerElement(t) == IsClass(t[2]) \/ ~t[3] \/ ~t[4]
SavingContiguous(t) == t[4] /\ IsFundamentalOrEnum(t[2]) /\ t[3]
LoadingPerElement(t) == IsClass(t[2]) \/ ~t[3]
LoadingContiguous(t) == t[4] /\ IsFundamentalOrEnum(t[2]) /\ t[3]

RECURSIVE SaveItem(_, _, _, _), SaveItems(_, _, _, _), SaveEach(_, _, _, _),
          ClassSave(_, _, _, _)

\* archive::serialize_items: the items one by one, left to right.
SaveItems(ar, reg, ts, vs) ==
    IF ts = <<>> \/ ar.err # NoError THEN ar
    ELSE SaveItems(SaveItem(ar, reg, Head(ts), Head(vs)), reg, Tail(ts), Tail(vs))

\* for (auto & item : container) archive(item);
SaveEach(ar, reg, t, vs) ==
    IF vs = <<>> \/ ar.err # NoError THEN ar
    ELSE SaveEach(SaveItem(ar, reg, t, Head(vs)), reg, t, Tail(vs))

\* The serialize hooks of examples/archive.cpp, called with an object whose
\* static type is the class `name`: point writes m_x, m_y; person writes
\* m_name; student calls person::serialize and writes m_university.
ClassSave(ar, reg, name, obj) ==
    CASE name = "point" ->
            SaveItems(ar, reg, <<TInt, TInt>>, <<obj[2][1], obj[2][2]>>)
      [] name = "person" ->
            SaveItems(ar, reg, <<TString>>, <<obj[2][1]>>)
      [] name = "student" ->
            SaveItems(ClassSave(ar, reg, "person", obj), reg,
                      <<TString>>, <<obj[2][2]>>)

\* make_serialization_method<Archive, Type> for a saving archive:
\* archive(dynamic_cast<const Type &>(object)).
SavingMethod(ar, reg, Type, object) ==
    IF IsBaseOf(Type, object[1])
        THEN SaveItem(ar, reg, TClass(Type), object)
        ELSE Throw(ar, "bad_cast")

\* registry::serialize for a saving archive.
RegistrySave(ar, reg, object) ==
    IF object[1] \notin DOMAIN reg.type_to_id
        THEN Throw(ar, "undeclared_polymorphic_type")
    ELSE LET id == reg.type_to_id[object[1]] IN
         IF id \notin DOMAIN reg.id_to_method
            THEN Throw(ar, "undeclared_polymorphic_type")
         ELSE SavingMethod(SaveItem(ar, reg, TId, id), reg,
                           reg.id_to_method[id], object)

\* serialize(Archive &, const std::unique_ptr<Type> &) and the shared_ptr
\* twin, saving: a handle is <<>> (null) or <<object>>.
SaveHandle(ar, reg, t, v) ==
    IF v = <<>> THEN Throw(ar, "attempt_to_serialize_null_pointer")
    ELSE IF IsPolymorphic(t[2]) THEN RegistrySave(ar, reg, v[1])
    ELSE SaveItem(ar, reg, t[2], v[1])

\* SaveWrapper looking up typeid(Type) of the wrapper, not typeid(object).
SaveWrapper_StaticType(ar, reg, t, v) == RegistrySave(ar, reg, <<t[2][2], v[2]>>)

\* serialize(Archive &, const polymorphic_wrapper<Type> &)
SaveWrapper(ar, reg, t, v) == RegistrySave(ar, reg, v)

\* serialize of a resizable container, saving, per element.
SaveResizable(ar, reg, t, v) ==
    SaveEach(SaveItem(ar, reg, TSize, ToSizeType(Len(v))), reg, t[2], v)

\* archive::serialize_item(binary<T> &&) on a saving archive: size_in_bytes
\* bytes starting at data().
SaveBinary(ar, elem, v) ==
    OutSerialize(ar, Take(Flatten([i \in 1..Len(v) |-> ToBytes(v[i], SizeOf(elem))]),
                          size_in_bytes(Len(v), elem)))

\* serialize of a resizable, contiguous container of fundamentals, saving.
SaveContiguous(ar, reg, t, v) ==
    LET size == ToSizeType(Len(v))
        a1 == SaveItem(ar, reg, TSize, size)
    IN  IF size = 0 THEN a1
        ELSE IF a1.err # NoError THEN a1
        ELSE SaveBinary(a1, t[2], v)

\* serialize of an associative container, saving: the size, then the items
\* in the order of iteration.
SaveAssociative(ar, reg, t, v) ==
    SaveEach(SaveItem(ar, reg, TSize, ToSizeType(Len(v))), reg, t[2], v)

\* archive::serialize_item: the overload chosen for the item's type.
SaveItem(ar, reg, t, v) ==
    IF ar.err # NoError THEN ar
    ELSE CASE t[1] = "class" -> ClassSave(ar, reg, t[2], v)
           [] t[1] = "fundamental" -> OutSerialize(ar, ToBytes(v, t[2]))
           [] t[1] = "enum" -> OutSerialize(ar, ToBytes(v, t[2]))
           [] t[1] = "binary" -> SaveBinary(ar, t[2], v)
           [] t[1] = "resizable" ->
                IF SavingContiguous(t) THEN SaveContiguous(ar, reg, t, v)
                ELSE SaveResizable(ar, reg, t, v)
           [] t[1] = "associative" -> SaveAssociative(ar, reg, t, v)
           [] t[1] = "array" -> SaveEach(ar, reg, t[2], v)
           [] t[1] = "pair" -> SaveItems(ar, reg, <<t[2], t[3]>>, v)
           [] t[1] = "tuple" -> SaveItems(ar, reg, t[2], v)
           [] t[1] \in {"unique_ptr", "shared_ptr"} -> SaveHandle(ar, reg, t, v)
           [] t[1] = "polymorphic_wrapper" -> SaveWrapper(ar, reg, t, v)

\* memory_output_archive::operator() whose catch block only rethrows.
MemoryOutputCall_NoFitOnThrow(output, m_size, reg, ts, vs) ==
    LET r == SaveItems([output |-> output, m_size |-> m_size, err |-> NoError],
                       reg, ts, vs)
    IN  IF r.err # NoError THEN r ELSE fit_vector(r)

\* memory_output_archive::operator(): the items, then fit_vector, on the
\* normal path and in the catch block alike.
MemoryOutputCall(output, m_size, reg, ts, vs) ==
    fit_vector(SaveItems([output |-> output, m_size |-> m_size, err |-> NoError],
                         reg, ts, vs))

---------------------------------------------------------------------------
(* memory_view_input_archive.  A loading archive is a record               *)
(* [input, m_size, m_offset, err, made, freed].  A load returns [a, v]:    *)
(* the archive afterwards and the value the target holds afterwards.       *)
(* made counts the objects the load constructed with new, freed those of   *)
(* them that were deleted again; the others are owned by the targets.      *)
(* temps has one entry for every temporary item constructed in aligned     *)
(* storage, the number of times it was destroyed; bad_alloc is the set of  *)
(* temporaries whose insertion finds no memory for a node.                 *)

\* ViewSerialize that moves the offset to the end when it throws.
ViewSerialize_SkipOnThrow(ar, n) ==
    IF ar.err # NoError THEN [a |-> ar, bs |-> <<>>]
    ELSE IF ar.m_size < n + ar.m_offset
        THEN [a |-> Throw([ar EXCEPT !.m_offset = ar.m_size], "out_of_range"),
              bs |-> <<>>]
    ELSE [a |-> [ar EXCEPT !.m_offset = ar.m_offset + n],
          bs |-> SubSeq(ar.input, ar.m_offset + 1, ar.m_offset + n)]

\* ViewSerialize without the comparison with m_size: what lies behind the
\* input is read as zero bytes.
ViewSerialize_Unchecked(ar, n) ==
    IF ar.err # NoError THEN [a |-> ar, bs |-> <<>>]
    ELSE [a |-> [ar EXCEPT !.m_offset = ar.m_offset + n],
          bs |-> [i \in 1..n |-> IF ar.m_offset + i <= Len(ar.input)
                                    THEN ar.input[ar.m_offset + i] ELSE 0]]

\* ViewSerialize without "m_offset += sizeof(item)".
ViewSerialize_NoAdvance(ar, n) ==
    IF ar.err # NoError THEN [a |-> ar, bs |-> <<>>]
    ELSE IF ar.m_size < n + ar.m_offset
        THEN [a |-> Throw(ar, "out_of_range"), bs |-> <<>>]
    ELSE [a |-> ar,
          bs |-> SubSeq(ar.input, ar.m_offset + 1, ar.m_offset + n)]

\* memory_view_input_archive::serialize(Item &&) and serialize(void *, size_type)
\* for n bytes: [a, bs], bs the bytes copied to the destination.
ViewSerialize(ar, n) ==
    IF ar.err # NoError THEN [a |-> ar, bs |-> <<>>]
    ELSE IF ar.m_size < n + ar.m_offset
        THEN [a |-> Throw(ar, "out_of_range"), bs |-> <<>>]
    ELSE [a |-> [ar EXCEPT !.m_offset = ar.m_offset + n],
          bs |-> SubSeq(ar.input, ar.m_offset + 1, ar.m_offset + n)]

\* A value-initialized object of type t, as new Item() and resize() make it.
RECURSIVE Default(_)
Default(t) ==
    CASE t[1] \in {"fundamental", "enum"} -> 0
      [] t = TPoint -> <<"point", <<0, 0>>>>
      [] t = TPerson -> <<"person", << <<>> >>>>
      [] t = TStudent -> <<"student", << <<>>, <<>> >>>>
      [] t[1] = "resizable" -> <<>>
      [] t[1] = "associative" -> <<>>
      [] t[1] = "array" -> [i \in 1..t[3] |-> Default(t[2])]
      [] t[1] = "pair" -> <<Default(t[2]), Default(t[3])>>
      [] t[1] = "tuple" -> [i \in 1..Len(t[2]) |-> Default(t[2][i])]
      [] t[1] \in {"unique_ptr", "shared_ptr"} -> <<>>

\* container.resize(n)
ContainerResize(c, n, elem) ==
    [i \in 1..n |-> IF i <= Len(c) THEN c[i] ELSE Default(elem)]

RECURSIVE LoadItem(_, _, _, _), LoadItems(_, _, _, _), LoadEach(_, _, _, _),
          ClassLoad(_, _, _, _)

\* archive::serialize_items on a loading archive.
LoadItems(ar, reg, ts, olds) ==
    IF ts = <<>> \/ ar.err # NoError THEN [a |-> ar, v |-> olds]
    ELSE LET r == LoadItem(ar, reg, Head(ts), Head(olds))
             rest == LoadItems(r.a, reg, Tail(ts), Tail(olds))
         IN  [a |-> rest.a, v |-> <<r.v>> \o rest.v]

\* for (auto & item : container) archive(item);
LoadEach(ar, reg, t, olds) ==
    IF olds = <<>> \/ ar.err # NoError THEN [a |-> ar, v |-> olds]
    ELSE LET r == LoadItem(ar, reg, t, Head(olds))
             rest == LoadEach(r.a, reg, t, Tail(olds))
         IN  [a |-> rest.a, v |-> <<r.v>> \o rest.v]

\* The serialize hooks of examples/archive.cpp on a loading archive.
ClassLoad(ar, reg, name, obj) ==
    CASE name = "point" ->
            LET r == LoadItems(ar, reg, <<TInt, TInt>>, obj[2])
            IN  [a |-> r.a, v |-> <<obj[1], r.v>>]
      [] name = "person" ->
            LET r == LoadItems(ar, reg, <<TString>>, <<obj[2][1]>>)
            IN  [a |-> r.a, v |-> <<obj[1], [obj[2] EXCEPT ![1] = r.v[1]]>>]
      [] name = "student" ->
            LET r1 == ClassLoad(ar, reg, "person", obj)
                r2 == LoadItems(r1.a, reg, <<TString>>, <<r1.v[2][2]>>)
            IN  [a |-> r2.a, v |-> <<obj[1], [r1.v[2] EXCEPT ![2] = r2.v[1]]>>]

\* make_serialization_method<Archive, Type> for a loading archive:
\* [a, v], v the handle `object` afterwards.
LoadingMethod(ar, reg, Type, object) ==
    LET r == LoadItem([ar EXCEPT !.made = @ + 1], reg, TClass(Type),
                      Default(TClass(Type)))
    IN  IF r.a.err # NoError
            THEN [a |-> [r.a EXCEPT !.freed = @ + 1], v |-> object]
        ELSE [a |-> r.a, v |-> <<r.v>>]

\* registry::serialize that constructs an object before it looks the id up,
\* and deletes it again when the id is not found.
RegistryLoad_ConstructFirst(ar, reg, object) ==
    LET r == LoadItem(ar, reg, TId, 0) IN
    IF r.a.err # NoError THEN [a |-> r.a, v |-> object]
    ELSE IF r.v \notin DOMAIN reg.id_to_method
        THEN [a |-> Throw([r.a EXCEPT !.made = @ + 1, !.freed = @ + 1],
                          "undeclared_polymorphic_type"),
              v |-> object]
    ELSE LoadingMethod(r.a, reg, reg.id_to_method[r.v], object)

\* registry::serialize for a loading archive.
RegistryLoad(ar, reg, object) ==
    LET r == LoadItem(ar, reg, TId, 0) IN
    IF r.a.err # NoError THEN [a |-> r.a, v |-> object]
    ELSE IF r.v \notin DOMAIN reg.id_to_method
        THEN [a |-> Throw(r.a, "undeclared_polymorphic_type"), v |-> object]
    ELSE LoadingMethod(r.a, reg, reg.id_to_method[r.v], object)

\* The polymorphic load that gives up the loaded object before the cast:
\* on a mismatch nobody deletes it.
LoadPolymorphicHandle_Leak(ar, reg, t, old) ==
    LET r == RegistryLoad(ar, reg, <<>>) IN
    IF r.a.err # NoError THEN [a |-> r.a, v |-> old]
    ELSE IF IsBaseOf(t[2][2], r.v[1][1]) THEN [a |-> r.a, v |-> r.v]
    ELSE [a |-> Throw(r.a, "polymorphic_type_mismatch"), v |-> old]

\* serialize(Archive &, std::unique_ptr<Type> &) and the shared_ptr twin,
\* loading, for polymorphic Type.
LoadPolymorphicHandle(ar, reg, t, old) ==
    LET r == RegistryLoad(ar, reg, <<>>) IN
    IF r.a.err # NoError THEN [a |-> r.a, v |-> old]
    ELSE IF IsBaseOf(t[2][2], r.v[1][1]) THEN [a |-> r.a, v |-> r.v]
    ELSE [a |-> Throw([r.a EXCEPT !.freed = @ + 1], "polymorphic_type_mismatch"),
          v |-> old]

\* The load into a handle that hands the new object over before it is
\* loaded: a failure leaves the handle with the half loaded object.
LoadHandle_TransferFirst(ar, reg, t, old) ==
    LET r == LoadItem([ar EXCEPT !.made = @ + 1], reg, t[2], Default(t[2]))
    IN  [a |-> r.a, v |-> <<r.v>>]

\* serialize(Archive &, std::unique_ptr<Type> &) and the shared_ptr twin,
\* loading, for non polymorphic Type.
LoadHandle(ar, reg, t, old) ==
    LET r == LoadItem([ar EXCEPT !.made = @ + 1], reg, t[2], Default(t[2]))
    IN  IF r.a.err # NoError
            THEN [a |-> [r.a EXCEPT !.freed = @ + 1], v |-> old]
        ELSE [a |-> r.a, v |-> <<r.v>>]

\* serialize of a resizable container, loading, per element.
LoadResizable(ar, reg, t, old) ==
    LET r == LoadItem(ar, reg, TSize, 0) IN
    IF r.a.err # NoError THEN [a |-> r.a, v |-> old]
    ELSE LoadEach(r.a, reg, t[2], ContainerResize(old, r.v, t[2]))

\* archive::serialize_item(binary<T> &&) on a loading archive: size_in_bytes
\* bytes are copied over the object representation of the elements.
LoadBinary(ar, elem, old) ==
    LET r == ViewSerialize(ar, size_in_bytes(Len(old), elem))
        sz == SizeOf(elem)
        image == CopyInto(Flatten([i \in 1..Len(old) |-> ToBytes(old[i], sz)]),
                          0, r.bs)
    IN  [a |-> r.a,
         v |-> [i \in 1..Len(old) |->
                    FromBytes(SubSeq(image, (i - 1) * sz + 1, i * sz))]]

\* serialize of a resizable, contiguous container of fundamentals, loading.
LoadContiguous(ar, reg, t, old) ==
    LET r == LoadItem(ar, reg, TSize, 0) IN
    IF r.a.err # NoError THEN [a |-> r.a, v |-> old]
    ELSE IF r.v = 0 THEN [a |-> r.a, v |-> <<>>]
    ELSE LoadBinary(r.a, t[2], ContainerResize(old, r.v, t[2]))

\* the key of a container item: the item of a set, the first of a map's pair
KeyOf(item, t) == IF t[3] = "map" THEN item[1] ELSE item

\* container.insert(std::move(item)) of std::set and std::map: an item whose
\* key is in the container is dropped, another is put at its place in the
\* order of the keys.
Insert(c, item, t) ==
    IF \E i \in 1..Len(c) : KeyOf(c[i], t) = KeyOf(item, t) THEN c
    ELSE LET p == Cardinality({i \in 1..Len(c) : KeyOf(c[i], t) < KeyOf(item, t)})
         IN  SubSeq(c, 1, p) \o <<item>> \o SubSeq(c, p + 1, Len(c))

\* access::placement_new<item_type>(std::addressof(storage))
PlacementNew(ar) == [ar EXCEPT !.temps = Append(@, 0)]

\* access::destruct(*item) of the k-th temporary
Destruct(ar, k) == [ar EXCEPT !.temps[k] = @ + 1]

RECURSIVE LoadInsertEach(_, _, _, _, _)

\* The loop over the items without the catch block: an exception leaves the
\* temporary as it is.
LoadInsertEach_NoCatch(ar, reg, t, c, n) ==
    IF n = 0 \/ ar.err # NoError THEN [a |-> ar, v |-> c]
    ELSE LET k == Len(ar.temps) + 1
             r == LoadItem(PlacementNew(ar), reg, t[2], Default(t[2]))
         IN  IF r.a.err # NoError THEN [a |-> r.a, v |-> c]
             ELSE IF k \in ar.bad_alloc
                 THEN [a |-> Throw(r.a, "bad_alloc"), v |-> c]
             ELSE LoadInsertEach(Destruct(r.a, k), reg, t, Insert(c, r.v, t), n - 1)

\* serialize of an associative container, loading: the loop over the items.
\* A temporary is constructed, loaded, inserted and destroyed; the catch
\* block destroys it when the load or the insertion throws.
LoadInsertEach(ar, reg, t, c, n) ==
    IF n = 0 \/ ar.err # NoError THEN [a |-> ar, v |-> c]
    ELSE LET k == Len(ar.temps) + 1
             r == LoadItem(PlacementNew(ar), reg, t[2], Default(t[2]))
         IN  IF r.a.err # NoError THEN [a |-> Destruct(r.a, k), v |-> c]
             ELSE IF k \in ar.bad_alloc
                 THEN [a |-> Destruct(Throw(r.a, "bad_alloc"), k), v |-> c]
             ELSE LoadInsertEach(Destruct(r.a, k), reg, t, Insert(c, r.v, t), n - 1)

\* serialize of an associative container, loading.
LoadAssociative(ar, reg, t, old) ==
    LET r == LoadItem(ar, reg, TSize, 0) IN
    IF r.a.err # NoError THEN [a |-> r.a, v |-> old]
    ELSE LoadInsertEach(r.a, reg, t, old, r.v)

\* A fundamental of n bytes read into the item.
LoadFundamental(ar, n, old) ==
    LET r == ViewSerialize(ar, n)
    IN  [a |-> r.a, v |-> IF r.a.err # NoError THEN old ELSE FromBytes(r.bs)]

\* archive::serialize_item on a loading archive.
LoadItem(ar, reg, t, old) ==
    IF ar.err # NoError THEN [a |-> ar, v |-> old]
    ELSE CASE t[1] = "class" -> ClassLoad(ar, reg, t[2], old)
           [] t[1] = "fundamental" -> LoadFundamental(ar, t[2], old)
           [] t[1] = "enum" -> LoadFundamental(ar, t[2], old)
           [] t[1] = "binary" -> LoadBinary(ar, t[2], old)
           [] t[1] = "resizable" ->
                IF LoadingContiguous(t) THEN LoadContiguous(ar, reg, t, old)
                ELSE IF LoadingPerElement(t) THEN LoadResizable(ar, reg, t, old)
                ELSE [a |-> Throw(ar, NoMatchingFunction), v |-> old]
           [] t[1] = "associative" -> LoadAssociative(ar, reg, t, old)
           [] t[1] = "array" -> LoadEach(ar, reg, t[2], old)
           [] t[1] = "pair" -> LoadItems(ar, reg, <<t[2], t[3]>>, old)
           [] t[1] = "tuple" -> LoadItems(ar, reg, t[2], old)
           [] t[1] \in {"unique_ptr", "shared_ptr"} ->
                IF IsPolymorphic(t[2]) THEN LoadPolymorphicHandle(ar, reg, t, old)
                ELSE LoadHandle(ar, reg, t, old)

\* memory_view_input_archive(input, size): the array viewed and the offset
ViewOver(input) == [input |-> input, m_offset |-> 0]

\* memory_view_input_archive::operator() (archive::operator()): the items
\* are loaded from the offset on; an exception leaves the offset where the
\* throw found it.  [input, m_offset, err, v, made, freed, temps].
\* bad_alloc: the temporaries whose insertion finds no memory.
ViewCallWhere(vw, reg, ts, olds, bad_alloc) ==
    LET r == LoadItems([input |-> vw.input, m_size |-> Len(vw.input),
                        m_offset |-> vw.m_offset, err |-> NoError,
                        made |-> 0, freed |-> 0,
                        temps |-> <<>>, bad_alloc |-> bad_alloc], reg, ts, olds)
    IN  [input |-> r.a.input, m_offset |-> r.a.m_offset,
         err |-> r.a.err, v |-> r.v, made |-> r.a.made, freed |-> r.a.freed,
         temps |-> r.a.temps]

\* the same where memory is never short
ViewCall(vw, reg, ts, olds) == ViewCallWhere(vw, reg, ts, olds, {})

\* memory_input_archive::operator() that clears the vector after the load.
MemoryInputCall_EraseAll(input, reg, ts, olds) ==
    LET r == LoadItems([input |-> input, m_size |-> Len(input),
                        m_offset |-> 0, err |-> NoError,
                        made |-> 0, freed |-> 0,
                        temps |-> <<>>, bad_alloc |-> {}], reg, ts, olds)
    IN  [input |-> <<>>, m_offset |-> 0,
         err |-> r.a.err, v |-> r.v, consumed |-> r.a.m_offset,
         made |-> r.a.made, freed |-> r.a.freed]

\* memory_input_archive::operator() whose catch block only rethrows.
MemoryInputCall_NoEraseOnThrow(input, reg, ts, olds) ==
    LET r == LoadItems([input |-> input, m_size |-> Len(input),
                        m_offset |-> 0, err |-> NoError,
                        made |-> 0, freed |-> 0,
                        temps |-> <<>>, bad_alloc |-> {}], reg, ts, olds)
    IN  [input |-> IF r.a.err # NoError THEN input ELSE Drop(input, r.a.m_offset),
         m_offset |-> 0,
         err |-> r.a.err, v |-> r.v, consumed |-> r.a.m_offset,
         made |-> r.a.made, freed |-> r.a.freed]

\* memory_input_archive::operator(): the view is set to the whole vector,
\* the items are loaded, the bytes up to get_offset() are erased and the
\* offset is reset, on the normal path and in the catch block alike.
\* [input, m_offset, err, v, consumed].
MemoryInputCall(input, reg, ts, olds) ==
    LET r == LoadItems([input |-> input, m_size |-> Len(input),
                        m_offset |-> 0, err |-> NoError,
                        made |-> 0, freed |-> 0,
                        temps |-> <<>>, bad_alloc |-> {}], reg, ts, olds)
    IN  [input |-> Drop(input, r.a.m_offset), m_offset |-> 0,
         err |-> r.a.err, v |-> r.v, consumed |-> r.a.m_offset,
         made |-> r.a.made, freed |-> r.a.freed]

---------------------------------------------------------------------------
(* The values the model saves and loads.                                   *)

Point(x, y) == <<"point", <<x, y>>>>
Person(name) == <<"person", <<name>>>>
Student(name, university) == <<"student", <<name, university>>>>

\* the registry of an archive type before any add
EmptyRegistry == [id_to_method |-> <<>>, type_to_id |-> <<>>]

\* identifiers handed to add
Ids == {1337, 1338}

NoOp == [op |-> "none"]

\* the registries of the built in archives, one instance per archive type
Registries == {"saving", "loading"}

\* the threads that call into the registries
Threads == {"t1", "t2"}

\* a shared_mutex nobody holds: no exclusive owner, no shared owners
NoThread == "nobody"
Unlocked == [writer |-> NoThread, readers |-> {}]

\* Items of the calls made on the shared vector: <<type, value>>.
NullItem == <<TUnique(TPoint), <<>>>>
ArchiveSaves ==
    { << <<TInt>>, <<258>> >>,
      << <<TPoint>>, <<Point(1337, 1338)>> >>,
      << <<TChar, TInt>>, <<7, 258>> >>,
      << <<TString>>, << <<49, 51>> >> >>,
      << <<TInt, TUnique(TPoint)>>, <<258, <<>> >> >>,
      << <<TUnique(TPoint)>>, << <<>> >> >>,
      << <<TPair(TChar, TUnique(TPoint))>>, << <<7, <<>> >> >> >>,
      << <<TUnique(TPerson)>>, << <<Person(<<49>>)>> >> >> }

ArchiveLoads ==
    { <<TInt>>, <<TPoint>>, <<TChar, TInt>>, <<TUnique(TPoint)>> }

\* Items of the round trips: every kind of supported value.
RoundTripItems ==
    { <<TChar, 0>>, <<TChar, 65>>, <<TChar, 255>>,
      <<TInt, 0>>, <<TInt, 1337>>, <<TInt, 16909060>>, <<TInt, 2147483647>>,
      <<TId, 16909060>>,
      <<TEnum, 0>>, <<TEnum, 2>>,
      <<TString, <<>> >>, <<TString, <<49, 51, 51, 55>> >>,
      <<TVectorInt, <<>> >>, <<TVectorInt, <<1337, 1338>> >>,
      <<TVectorInt, <<16909060>> >>,
      <<TVectorEnum, <<2, 1>> >>, <<TVectorEnum, <<0>> >>,
      <<TListInt, <<>> >>, <<TListInt, <<1337>> >>, <<TListInt, <<1, 2, 3>> >>,
      <<TVectorPoint, <<>> >>,
      <<TVectorPoint, <<Point(1, 2), Point(1337, 1338)>> >>,
      <<TResizable(TString, TRUE, TRUE), << <<49, 51>>, <<>> >> >>,
      <<TResizable(TString, TRUE, TRUE), << <<55>> >> >>,
      <<TArray(TChar, 2), <<1, 2>> >>, <<TArray(TChar, 2), <<255, 0>> >>,
      <<TArray(TPoint, 2), <<Point(1, 2), Point(3, 4)>> >>,
      <<TPair(TChar, TInt), <<7, 258>> >>, <<TPair(TChar, TInt), <<0, 1337>> >>,
      <<TPair(TString, TPoint), << <<49>>, Point(1, 2)>> >>,
      <<TTuple(<<TChar, TInt, TString>>), <<7, 258, <<49, 51>> >> >>,
      <<TTuple(<<TChar, TInt, TString>>), <<1, 0, <<>> >> >>,
      <<TPoint, Point(1337, 1338)>>, <<TPoint, Point(0, 0)>>,
      <<TPoint, Point(258, 1)>>,
      <<TUnique(TPoint), <<Point(1337, 1338)>> >>,
      <<TUnique(TPoint), <<Point(1, 2)>> >>,
      <<TUnique(TInt), <<1337>> >>,
      <<TShared(TPoint), <<Point(1337, 1338)>> >>,
      <<TShared(TString), << <<49, 51>> >> >>,
      <<TUnique(TUnique(TInt)), << <<258>> >> >> }

\* What a load target of type t may hold before the load.
TargetsOf(t) == {Default(t)} \cup {it[2] : it \in {x \in RoundTripItems : x[1] = t}}

Last(s) == s[Len(s)]

---------------------------------------------------------------------------
(* The archives of examples/archive.cpp: std::vector<unsigned char> data;  *)
(* memory_input_archive in(data); memory_output_archive out(data);         *)

InitRegistry ==
    /\ reg_saving = EmptyRegistry
    /\ reg_loading = EmptyRegistry
    /\ addlog = <<>>
    /\ last = NoOp
    /\ mutex = [which \in Registries |-> Unlocked]
    /\ frames = [t \in Threads |-> <<>>]
    /\ calls = 0

InitArchive ==
    /\ data \in {<<>>, <<170>>}
    /\ out_m_size = Len(data)
    /\ in_m_offset = 0
    /\ data0 = data
    /\ hist = <<>>
    /\ view = ViewOver(<<>>)
    /\ InitRegistry

\* out(items...)
Save(ts, vs) ==
    \E r \in {MemoryOutputCall(data, out_m_size, reg_saving, ts, vs)} :
    /\ data' = r.output
    /\ out_m_size' = r.m_size
    /\ hist' = Append(hist, [op |-> "save", ts |-> ts, vs |-> vs, olds |-> vs,
                             before |-> data, pre |-> out_m_size,
                             after |-> r.output, err |-> r.err, n |-> r.m_size])
    /\ UNCHANGED <<in_m_offset, data0, view>>
    /\ UNCHANGED registry_vars
    /\ UNCHANGED thread_vars

\* in(items...)
Load(ts, olds) ==
    \E r \in {MemoryInputCall(data, reg_loading, ts, olds)} :
    /\ data' = r.input
    /\ in_m_offset' = r.m_offset
    /\ hist' = Append(hist, [op |-> "load", ts |-> ts, vs |-> r.v, olds |-> olds,
                             before |-> data, pre |-> out_m_size,
                             after |-> r.input, err |-> r.err, n |-> r.consumed,
                             made |-> r.made, freed |-> r.freed])
    /\ UNCHANGED <<out_m_size, data0, view>>
    /\ UNCHANGED registry_vars
    /\ UNCHANGED thread_vars

SaveCall ==
    /\ Len(hist) < MaxOps
    /\ \E c \in ArchiveSaves : Save(c[1], c[2])

LoadCall ==
    /\ Len(hist) < MaxOps
    /\ \E ts \in ArchiveLoads : Load(ts, [i \in 1..Len(ts) |-> Default(ts[i])])

NextArchive == SaveCall \/ LoadCall

SpecArchive == InitArchive /\ [][NextArchive]_vars

\* One save into an empty vector, then one load of the same type.
InitRoundTrip ==
    /\ data = <<>>
    /\ out_m_size = Len(data)
    /\ in_m_offset = 0
    /\ data0 = data
    /\ hist = <<>>
    /\ view = ViewOver(<<>>)
    /\ InitRegistry

SaveOne ==
    /\ hist = <<>>
    /\ \E it \in RoundTripItems : Save(<<it[1]>>, <<it[2]>>)

LoadOne ==
    /\ Len(hist) = 1
    /\ \E old \in TargetsOf(hist[1].ts[1]) : Load(hist[1].ts, <<old>>)

NextRoundTrip == SaveOne \/ LoadOne

SpecRoundTrip == InitRoundTrip /\ [][NextRoundTrip]_vars

---------------------------------------------------------------------------
(* The wire format of a value, as section 6.3 of the specification gives   *)
(* it, written without an archive: [bs, ok], bs the bytes up to the first  *)
(* owning handle that holds nothing or holds a polymorphic object whose    *)
(* type is not registered, ok whether there was none.                      *)

RECURSIVE WireOf(_, _), WireSeq(_, _)

WireSeq(ts, vs) ==
    IF ts = <<>> THEN [bs |-> <<>>, ok |-> TRUE]
    ELSE LET h == WireOf(Head(ts), Head(vs)) IN
         IF ~h.ok THEN h
         ELSE LET r == WireSeq(Tail(ts), Tail(vs))
              IN  [bs |-> h.bs \o r.bs, ok |-> r.ok]

WireOf(t, v) ==
    CASE t[1] \in {"fundamental", "enum"} -> [bs |-> ToBytes(v, t[2]), ok |-> TRUE]
      [] t[1] = "resizable" ->
            LET r == WireSeq([i \in 1..Len(v) |-> t[2]], v)
            IN  [bs |-> ToBytes(Len(v), SizeOfSizeType) \o r.bs, ok |-> r.ok]
      [] t[1] = "array" -> WireSeq([i \in 1..Len(v) |-> t[2]], v)
      [] t[1] = "pair" -> WireSeq(<<t[2], t[3]>>, v)
      [] t[1] = "tuple" -> WireSeq(t[2], v)
      [] t = TPoint -> WireSeq(<<TInt, TInt>>, v[2])
      [] t = TPerson -> WireSeq(<<TString>>, <<v[2][1]>>)
      [] t = TStudent -> WireSeq(<<TString, TString>>, v[2])
      [] t[1] \in {"unique_ptr", "shared_ptr"} ->
            IF v = <<>> THEN [bs |-> <<>>, ok |-> FALSE]
            ELSE IF ~IsPolymorphic(t[2]) THEN WireOf(t[2], v[1])
            ELSE IF v[1][1] \notin DOMAIN reg_saving.type_to_id
                THEN [bs |-> <<>>, ok |-> FALSE]
            ELSE LET r == WireOf(TClass(v[1][1]), v[1])
                 IN  [bs |-> ToBytes(reg_saving.type_to_id[v[1][1]], SizeOfIdType)
                                \o r.bs,
                      ok |-> r.ok]

IsSave(c) == c.op = "save"
IsLoad(c) == c.op = "load"
Succeeded(c) == c.err = NoError

---------------------------------------------------------------------------
(* The archives: claims C1 to C5.                                          *)

\* C1: one top-level save of a supported value v through memory_output_archive
\* into an empty vector, followed by one top-level load of the same type
\* through the input archive over those bytes, loads a value equal to v and
\* consumes exactly the bytes that were written.
C1_RoundTrip ==
    \A i \in 1..(Len(hist) - 1) :
        ( /\ IsSave(hist[i]) /\ Succeeded(hist[i])
          /\ Len(hist[i].ts) = 1
          /\ hist[i].before = <<>> /\ hist[i].pre = 0
          /\ IsLoad(hist[i + 1]) /\ hist[i + 1].ts = hist[i].ts )
        => ( /\ Succeeded(hist[i + 1])
             /\ hist[i + 1].vs = hist[i].vs
             /\ hist[i + 1].n = Len(hist[i].after)
             /\ hist[i + 1].after = <<>> )

\* A vector of two points was saved and loaded into a target that held
\* something else.
C1_Witness ==
    /\ Len(hist) = 2
    /\ IsSave(hist[1]) /\ IsLoad(hist[2]) /\ Succeeded(hist[2])
    /\ hist[2].ts = <<TVectorPoint>>
    /\ Len(hist[2].vs[1]) = 2
    /\ hist[2].olds # hist[2].vs
    /\ hist[2].n = 20

\* C2: after any sequence of successful top-level saves on one
\* memory_output_archive, nobody else touching the vector, the vector is its
\* content at construction followed by the encodings of all saved items, in
\* call order and, within a call, in argument order.
C2_SavesConcatenate ==
    (\A i \in 1..Len(hist) : IsSave(hist[i]) /\ Succeeded(hist[i]))
    => data = data0 \o Flatten([i \in 1..Len(hist) |->
                                    WireSeq(hist[i].ts, hist[i].vs).bs])

\* Three successful saves, one of two items, on a vector that was not empty.
C2_Witness ==
    /\ Len(hist) >= 3
    /\ \A i \in 1..Len(hist) : IsSave(hist[i]) /\ Succeeded(hist[i])
    /\ \E i \in 1..Len(hist) : Len(hist[i].ts) = 2
    /\ data0 # <<>>

\* C3 (as claimed): every successful save, whatever loads came between the
\* saves, puts its bytes right after the bytes the vector holds when the save
\* begins.
C3_EverySaveAppends ==
    \A i \in 1..Len(hist) :
        (IsSave(hist[i]) /\ Succeeded(hist[i]))
        => hist[i].after = hist[i].before \o WireSeq(hist[i].ts, hist[i].vs).bs

\* C4: at the end of every top-level save, normal or thrown, the length of
\* the vector is the write position of the archive.
C4_FitsWritePosition ==
    \A i \in 1..Len(hist) :
        IsSave(hist[i]) => Len(hist[i].after) = hist[i].n

\* A save threw after the vector had grown by the factor 1.5.
C4_Witness ==
    \E i \in 1..Len(hist) :
        /\ IsSave(hist[i]) /\ ~Succeeded(hist[i])
        /\ hist[i].ts = <<TInt, TUnique(TPoint)>>
        /\ Len(hist[i].after) = Len(hist[i].before) + SizeOfInt

\* C5 (as claimed): after a failed top-level save the vector has the length
\* it had before the call.
C5_FailedSaveRestoresLength ==
    \A i \in 1..Len(hist) :
        (IsSave(hist[i]) /\ ~Succeeded(hist[i]))
        => Len(hist[i].after) = Len(hist[i].before)

\* C5 (amended): after a failed top-level save the vector ends at the write
\* position of the moment of the throw: up to the write position the call
\* began with it is as before, and the bytes the failing call wrote before
\* the throw follow; only the over-allocated bytes are gone.
C5_FailedSaveKeepsWritten ==
    \A i \in 1..Len(hist) :
        (IsSave(hist[i]) /\ ~Succeeded(hist[i]))
        => hist[i].after = VectorResize(hist[i].before, hist[i].pre)
                            \o WireSeq(hist[i].ts, hist[i].vs).bs

\* A save threw in its second item, after the first had been written.
C5_Witness ==
    \E i \in 1..Len(hist) :
        /\ IsSave(hist[i]) /\ hist[i].err = "attempt_to_serialize_null_pointer"
        /\ WireSeq(hist[i].ts, hist[i].vs).bs # <<>>
        /\ Len(hist[i].after) > Len(hist[i].before)

---------------------------------------------------------------------------
(* The registries and polymorphic saves and loads, each on archives of its *)
(* own over a fresh vector as in foo() and bar() of examples/archive.cpp.  *)

PolyObjects == {Person(<<49>>), Student(<<49>>, <<50, 51>>)}
\* the identifiers a load finds on the wire: those handed to add and one more
LoadIds == Ids \cup {1339}
HandleKinds == {"unique_ptr", "shared_ptr"}

\* what the handle of a polymorphic load holds before the load
OldHandles == {<<>>, <<Student(<<48>>, <<52>>)>>}

\* the polymorphic items a save is called with: <<type, value>>
PolySaveItems ==
    {<< <<k, TClass(c)>>, <<o>> >> :
        k \in HandleKinds, c \in PolymorphicClasses, o \in PolyObjects}
    \cup {<< <<k, TPerson>>, <<>> >> : k \in HandleKinds}
    \cup {<< TWrapper(TClass(c)), o >> : c \in PolymorphicClasses, o \in PolyObjects}

\* A handle or wrapper of static type Type refers to an object of Type or of
\* a class derived from it.
WellTyped(it) ==
    IF it[1][1] = "polymorphic_wrapper" THEN IsBaseOf(it[1][2][2], it[2][1])
    ELSE IF it[2] = <<>> THEN TRUE
    ELSE IsBaseOf(it[1][2][2], it[2][1][1])

Touches(e, which) == e.reg \in {which, "both"}

\* registry<lazy_vector_memory_output_archive>::get_instance().add<Type>(id)
AddSaving(Type, id) ==
    /\ Len(addlog) < MaxAdds
    /\ reg_saving' = add_type(reg_saving, Type, id)
    /\ addlog' = Append(addlog, [reg |-> "saving", id |-> id, type |-> Type])
    /\ last' = NoOp
    /\ UNCHANGED reg_loading
    /\ UNCHANGED archive_vars
    /\ UNCHANGED thread_vars

\* registry<memory_view_input_archive>::get_instance().add<Type>(id)
AddLoading(Type, id) ==
    /\ Len(addlog) < MaxAdds
    /\ reg_loading' = add_type(reg_loading, Type, id)
    /\ addlog' = Append(addlog, [reg |-> "loading", id |-> id, type |-> Type])
    /\ last' = NoOp
    /\ UNCHANGED reg_saving
    /\ UNCHANGED archive_vars
    /\ UNCHANGED thread_vars

\* register_types<make_type<Type, id>>(): the type is added to the registry
\* of every built in archive, memory_view_input_archive first.
RegisterTypes(Type, id) ==
    /\ Len(addlog) < MaxAdds
    /\ reg_loading' = add_type(reg_loading, Type, id)
    /\ reg_saving' = add_type(reg_saving, Type, id)
    /\ addlog' = Append(addlog, [reg |-> "both", id |-> id, type |-> Type])
    /\ last' = NoOp
    /\ UNCHANGED archive_vars
    /\ UNCHANGED thread_vars

\* std::vector<unsigned char> v; memory_output_archive out(v); out(item);
SavePolymorphic(t, v) ==
    \E r \in {MemoryOutputCall(<<>>, 0, reg_saving, <<t>>, <<v>>)} :
    /\ last' = [op |-> "save", t |-> t, v |-> v, id |-> 0, payload |-> <<>>,
                bytes |-> r.output, err |-> r.err, loaded |-> <<>>,
                old |-> <<>>, made |-> 0, freed |-> 0]
    /\ UNCHANGED <<reg_saving, reg_loading, addlog>>
    /\ UNCHANGED archive_vars
    /\ UNCHANGED thread_vars

\* A vector holding id and the static payload of object is loaded into a
\* handle of type t that holds old: memory_input_archive in(v); in(handle);
LoadPolymorphic(t, id, object, old) ==
    \E input \in {MemoryOutputCall(<<>>, 0, reg_saving, <<TId, TClass(object[1])>>,
                                   <<id, object>>).output} :
    \E r \in {MemoryInputCall(input, reg_loading, <<t>>, <<old>>)} :
    /\ last' = [op |-> "load", t |-> t, v |-> <<>>, id |-> id, payload |-> object,
                bytes |-> input, err |-> r.err, loaded |-> r.v[1],
                old |-> old, made |-> r.made, freed |-> r.freed]
    /\ UNCHANGED <<reg_saving, reg_loading, addlog>>
    /\ UNCHANGED archive_vars
    /\ UNCHANGED thread_vars

AddCall ==
    \E Type \in PolymorphicClasses, id \in Ids :
        AddSaving(Type, id) \/ AddLoading(Type, id) \/ RegisterTypes(Type, id)

\* A save or a load works on a vector of its own and leaves the registries
\* as they are: what it does depends on the registrations before it only.
\* One call is recorded after each registration (last is cleared by add).
SavePolymorphicCall ==
    /\ last = NoOp
    /\ \E it \in PolySaveItems : WellTyped(it) /\ SavePolymorphic(it[1], it[2])

LoadPolymorphicCall ==
    /\ last = NoOp
    /\ \E k \in HandleKinds, c \in PolymorphicClasses, id \in LoadIds,
          o \in PolyObjects, old \in OldHandles :
            LoadPolymorphic(<<k, TClass(c)>>, id, o, old)

InitPolymorphic ==
    /\ data = <<>>
    /\ out_m_size = 0
    /\ in_m_offset = 0
    /\ data0 = <<>>
    /\ hist = <<>>
    /\ view = ViewOver(<<>>)
    /\ InitRegistry

NextRegistry == AddCall \/ SavePolymorphicCall \/ LoadPolymorphicCall

SpecRegistry == InitPolymorphic /\ [][NextRegistry]_vars

---------------------------------------------------------------------------
(* The registries: claims C6 to C10.                                       *)

Registry(which) == IF which = "saving" THEN reg_saving ELSE reg_loading

\* the add calls made on the registry `which`, by their index in addlog
AddsOn(which) == {j \in 1..Len(addlog) : Touches(addlog[j], which)}

\* add call j was the first on `which` to name its identifier / its type
FirstOfId(which, j) ==
    \A i \in AddsOn(which) : i < j => addlog[i].id # addlog[j].id
FirstOfType(which, j) ==
    \A i \in AddsOn(which) : i < j => addlog[i].type # addlog[j].type

\* add call j was made when its identifier was occupied by another type
Conflicting(which, j) ==
    \E i \in AddsOn(which) :
        /\ i < j /\ addlog[i].id = addlog[j].id /\ FirstOfId(which, i)
        /\ addlog[i].type # addlog[j].type

\* the last call saved an owning handle that held an object
SavedHandle == /\ last.op = "save"
               /\ last.t[1] \in HandleKinds
               /\ last.v # <<>>

\* C6 (as claimed): when the type T of the object an owning handle holds is
\* a key of the type-to-id map with identifier I, saving the handle succeeds
\* and writes the 8 bytes of I followed by the bytes of a static save of the
\* T object.
C6_PolymorphicEnvelope ==
    (SavedHandle /\ last.v[1][1] \in DOMAIN reg_saving.type_to_id)
    => /\ last.err = NoError
       /\ last.bytes = ToBytes(reg_saving.type_to_id[last.v[1][1]], SizeOfIdType)
                       \o WireOf(TClass(last.v[1][1]), last.v[1]).bs

\* C7: saving as_polymorphic(x) gives the bytes, and the failure, that saving
\* a unique_ptr<person> holding x gives under the same registry.
C7_WrapperEqualsHandle ==
    (last.op = "save" /\ last.t[1] = "polymorphic_wrapper")
    => \E h \in {MemoryOutputCall(<<>>, 0, reg_saving, <<TUnique(TPerson)>>,
                                  << <<last.v>> >>)} :
            /\ last.bytes = h.output
            /\ last.err = h.err

\* as_polymorphic of a student seen through a person reference was saved,
\* identifier and both strings.
C7_Witness ==
    /\ last.op = "save" /\ last.t = TWrapper(TPerson)
    /\ last.v[1] = "student"
    /\ last.err = NoError
    /\ Len(last.bytes) > SizeOfIdType + SizeOfSizeType

\* C8: after any sequence of add calls, in each registry every identifier an
\* add named is a key of the id-to-method map and maps to the method of the
\* first add that named it, and every type an add named is a key of the
\* type-to-id map and maps to the identifier of the first add that named it.
C8_RegistryMonotone ==
    \A which \in {"saving", "loading"} : \A j \in AddsOn(which) :
        /\ addlog[j].id \in DOMAIN Registry(which).id_to_method
        /\ FirstOfId(which, j)
            => Registry(which).id_to_method[addlog[j].id] = addlog[j].type
        /\ addlog[j].type \in DOMAIN Registry(which).type_to_id
        /\ FirstOfType(which, j)
            => Registry(which).type_to_id[addlog[j].type] = addlog[j].id

\* A second add named the identifier of the first with another type, and a
\* third named the type of the first with another identifier.
C8_Witness ==
    /\ Len(addlog) >= 2
    /\ \E which \in {"saving", "loading"} : \E i, j \in AddsOn(which) :
        /\ i < j /\ FirstOfId(which, i) /\ FirstOfType(which, i)
        /\ \/ addlog[j].id = addlog[i].id /\ addlog[j].type # addlog[i].type
           \/ addlog[j].id # addlog[i].id /\ addlog[j].type = addlog[i].type
        /\ Registry(which).id_to_method[addlog[i].id] = addlog[i].type
        /\ Registry(which).type_to_id[addlog[i].type] = addlog[i].id

\* C9 (as claimed): a type that was only ever added under identifiers that
\* were occupied by another type is not a key of the type-to-id map, and
\* saving a handle that holds an object of it fails with
\* undeclared_polymorphic_type_error.
C9_ConflictingAddRejected ==
    \A B \in PolymorphicClasses :
        /\ \A which \in {"saving", "loading"} :
            ( /\ \E j \in AddsOn(which) : addlog[j].type = B
              /\ \A j \in AddsOn(which) :
                    addlog[j].type = B => Conflicting(which, j) )
            => B \notin DOMAIN Registry(which).type_to_id
        /\ ( /\ SavedHandle /\ last.v[1][1] = B
             /\ \A j \in AddsOn("saving") :
                    addlog[j].type = B => Conflicting("saving", j) )
            => last.err = "undeclared_polymorphic_type"

\* the last call loaded, into a handle whose type is T or a base of T, bytes
\* that hold the identifier id and then the static payload of a T object
LoadedIdOf(id, T) == /\ last.op = "load"
                     /\ last.id = id
                     /\ last.payload[1] = T
                     /\ IsBaseOf(last.t[2][2], T)

\* C10 (as claimed): once add for (T, id) has returned, saving a handle
\* that holds a T object succeeds and writes id first, and loading bytes that
\* start with id succeeds and constructs a T, whatever was added before or
\* after.
C10_AddedStaysUsable ==
    /\ \A j \in AddsOn("saving") :
        (SavedHandle /\ last.v[1][1] = addlog[j].type)
        => /\ last.err = NoError
           /\ Take(last.bytes, SizeOfIdType) = ToBytes(addlog[j].id, SizeOfIdType)
    /\ \A j \in AddsOn("loading") :
        LoadedIdOf(addlog[j].id, addlog[j].type)
        => /\ last.err = NoError
           /\ last.loaded # <<>>
           /\ last.loaded[1][1] = addlog[j].type

\* C10 (amended): once an add for (T, id) has returned that was the first
\* of its registry to name T and the first to name id, saving a handle that
\* holds a T object succeeds and writes id first, and loading bytes that
\* start with id succeeds and constructs a T, whatever is added later.
C10_FirstAddStaysUsable ==
    /\ \A j \in AddsOn("saving") :
        ( /\ FirstOfId("saving", j) /\ FirstOfType("saving", j)
          /\ SavedHandle /\ last.v[1][1] = addlog[j].type )
        => /\ last.err = NoError
           /\ Take(last.bytes, SizeOfIdType) = ToBytes(addlog[j].id, SizeOfIdType)
    /\ \A j \in AddsOn("loading") :
        ( /\ FirstOfId("loading", j) /\ FirstOfType("loading", j)
          /\ LoadedIdOf(addlog[j].id, addlog[j].type) )
        => /\ last.err = NoError
           /\ last.loaded # <<>>
           /\ last.loaded[1][1] = addlog[j].type

\* student was added first, a later add named its identifier for person, and
\* a load of that identifier still constructed a student.
C10_Witness ==
    /\ Len(addlog) = 2
    /\ AddsOn("loading") = {1, 2}
    /\ addlog[1].type = "student"
    /\ Conflicting("loading", 2)
    /\ LoadedIdOf(addlog[1].id, "student")
    /\ last.err = NoError
    /\ last.loaded = <<last.payload>>

---------------------------------------------------------------------------
(* Threads calling registry::add and registry::serialize, statement by     *)
(* statement.  A frame is one call a thread is in: op, the registry, the   *)
(* statement it is at (pc), and its locals.  A serialization method runs   *)
(* the serialize hook of the user, which may call into a registry again:   *)
(* that call is a frame on top of the frame whose method is running.       *)

Frame(op, which, type, id) ==
    [op |-> op, which |-> which, pc |-> "lock", type |-> type, id |-> id,
     method |-> ""]

Top(t) == frames[t][Len(frames[t])]
At(t, op, pc) == frames[t] # <<>> /\ Top(t).op = op /\ Top(t).pc = pc

\* std::lock_guard<shared_mutex> can take the mutex
CanLockExclusive(m) == m.writer = NoThread /\ m.readers = {}

\* std::shared_lock that does not wait for the exclusive owner.
CanLockShared_Unguarded(m) == TRUE

\* std::shared_lock<shared_mutex> can take the mutex
CanLockShared(m) == m.writer = NoThread

SetRegistry(which, r) ==
    IF which = "saving" THEN reg_saving' = r /\ UNCHANGED reg_loading
    ELSE reg_loading' = r /\ UNCHANGED reg_saving

Goto(t, pc) ==
    frames' = [frames EXCEPT ![t] = [@ EXCEPT ![Len(@)].pc = pc]]

\* the call returns to its caller
Return(t) ==
    frames' = [frames EXCEPT ![t] = SubSeq(@, 1, Len(@) - 1)]

\* an exception leaves every call the thread is in; the shared_lock
\* destructors release what the thread holds
Unwind(t) ==
    /\ frames' = [frames EXCEPT ![t] = <<>>]
    /\ mutex' = [w \in Registries |-> [mutex[w] EXCEPT !.readers = @ \ {t}]]

\* a thread outside any call, or inside a serialization method, calls into
\* a registry
Call(t, f) ==
    /\ calls < MaxCalls
    /\ Len(frames[t]) < MaxNesting
    /\ frames[t] # <<>> => Top(t).pc = "method"
    /\ frames' = [frames EXCEPT ![t] = Append(@, f)]
    /\ calls' = calls + 1
    /\ UNCHANGED <<mutex, reg_saving, reg_loading, addlog, last>>
    /\ UNCHANGED archive_vars

\* registry<Archive>::add<Type>(id) is called
StartAdd(t) ==
    \E which \in Registries, Type \in PolymorphicClasses, id \in Ids :
        Call(t, Frame("add", which, Type, id))

\* registry::serialize(archive, object), saving, is called; a hook of a
\* saving archive saves a nested handle
StartEncode(t) ==
    /\ frames[t] # <<>> => Top(t).op = "encode"
    /\ \E Type \in PolymorphicClasses : Call(t, Frame("encode", "saving", Type, 0))

\* registry::serialize(archive, object), loading, is called and has read id
StartDecode(t) ==
    /\ frames[t] # <<>> => Top(t).op = "decode"
    /\ \E id \in Ids : Call(t, Frame("decode", "loading", "", id))

\* std::lock_guard<shared_mutex> lock(m_shared_mutex);
AddLock(t) ==
    /\ At(t, "add", "lock")
    /\ CanLockExclusive(mutex[Top(t).which])
    /\ mutex' = [mutex EXCEPT ![Top(t).which].writer = t]
    /\ Goto(t, "emplace_id")
    /\ UNCHANGED <<calls, reg_saving, reg_loading, addlog, last>>
    /\ UNCHANGED archive_vars

\* add without the first emplace: the id gets no serialization method.
AddEmplaceId_Skip(t) ==
    /\ At(t, "add", "emplace_id")
    /\ Goto(t, "emplace_type")
    /\ UNCHANGED <<calls, mutex, reg_saving, reg_loading, addlog, last>>
    /\ UNCHANGED archive_vars

\* m_serialization_id_to_method.emplace(id, serialization_method);
AddEmplaceId(t) ==
    /\ At(t, "add", "emplace_id")
    /\ SetRegistry(Top(t).which,
            [Registry(Top(t).which) EXCEPT
                !.id_to_method = Emplace(@, Top(t).id, Top(t).type)])
    /\ Goto(t, "emplace_type")
    /\ UNCHANGED <<calls, mutex, addlog, last>>
    /\ UNCHANGED archive_vars

\* m_type_information_to_serialization_id.emplace(type_information_string, id);
AddEmplaceType(t) ==
    /\ At(t, "add", "emplace_type")
    /\ SetRegistry(Top(t).which,
            [Registry(Top(t).which) EXCEPT
                !.type_to_id = Emplace(@, Top(t).type, Top(t).id)])
    /\ Goto(t, "unlock")
    /\ UNCHANGED <<calls, mutex, addlog, last>>
    /\ UNCHANGED archive_vars

\* the lock_guard is destroyed and add returns
AddUnlock(t) ==
    /\ At(t, "add", "unlock")
    /\ mutex' = [mutex EXCEPT ![Top(t).which].writer = NoThread]
    /\ addlog' = Append(addlog, [reg |-> Top(t).which, id |-> Top(t).id,
                                 type |-> Top(t).type])
    /\ Return(t)
    /\ UNCHANGED <<calls, reg_saving, reg_loading, last>>
    /\ UNCHANGED archive_vars

\* std::shared_lock<shared_mutex> lock(m_shared_mutex); of both serialize
SharedLock(t) ==
    /\ frames[t] # <<>> /\ Top(t).op \in {"encode", "decode"} /\ Top(t).pc = "lock"
    /\ CanLockShared(mutex[Top(t).which])
    /\ mutex' = [mutex EXCEPT ![Top(t).which].readers = @ \cup {t}]
    /\ Goto(t, IF Top(t).op = "encode" THEN "find_type" ELSE "find_method")
    /\ UNCHANGED <<calls, reg_saving, reg_loading, addlog, last>>
    /\ UNCHANGED archive_vars

\* m_type_information_to_serialization_id.find(typeid(object).name()), the
\* throw when it is not found, and the fetch of the id
EncodeFindType(t) ==
    /\ At(t, "encode", "find_type")
    /\ IF Top(t).type \notin DOMAIN reg_saving.type_to_id
          THEN Unwind(t)
          ELSE /\ frames' = [frames EXCEPT ![t] = [@ EXCEPT ![Len(@)] =
                        [Top(t) EXCEPT !.id = reg_saving.type_to_id[Top(t).type],
                                       !.pc = "find_method"]]]
               /\ UNCHANGED mutex
    /\ UNCHANGED <<calls, reg_saving, reg_loading, addlog, last>>
    /\ UNCHANGED archive_vars

\* m_serialization_id_to_method.find(id), the throw when it is not found,
\* and the fetch of the serialization method, of both serialize
FindMethod(t) ==
    /\ frames[t] # <<>> /\ Top(t).pc = "find_method"
    /\ IF Top(t).id \notin DOMAIN Registry(Top(t).which).id_to_method
          THEN Unwind(t)
          ELSE /\ frames' = [frames EXCEPT ![t] = [@ EXCEPT ![Len(@)] =
                        [Top(t) EXCEPT
                            !.method = Registry(Top(t).which).id_to_method[Top(t).id],
                            !.pc = "unlock"]]]
               /\ UNCHANGED mutex
    /\ UNCHANGED <<calls, reg_saving, reg_loading, addlog, last>>
    /\ UNCHANGED archive_vars

\* serialize that goes on to the serialization method with the lock held.
SharedUnlock_Keep(t) ==
    /\ frames[t] # <<>> /\ Top(t).op \in {"encode", "decode"} /\ Top(t).pc = "unlock"
    /\ Goto(t, "method")
    /\ UNCHANGED <<mutex, calls, reg_saving, reg_loading, addlog, last>>
    /\ UNCHANGED archive_vars

\* lock.unlock(); of both serialize
SharedUnlock(t) ==
    /\ frames[t] # <<>> /\ Top(t).op \in {"encode", "decode"} /\ Top(t).pc = "unlock"
    /\ mutex' = [mutex EXCEPT ![Top(t).which].readers = @ \ {t}]
    /\ Goto(t, "method")
    /\ UNCHANGED <<calls, reg_saving, reg_loading, addlog, last>>
    /\ UNCHANGED archive_vars

\* archive(id) and serialization_method(archive, object) have run: the
\* method returns, or the dynamic_cast of the saving method throws
MethodDone(t) ==
    /\ frames[t] # <<>> /\ Top(t).pc = "method"
    /\ IF Top(t).op = "encode" /\ ~IsBaseOf(Top(t).method, Top(t).type)
          THEN Unwind(t)
          ELSE Return(t) /\ UNCHANGED mutex
    /\ UNCHANGED <<calls, reg_saving, reg_loading, addlog, last>>
    /\ UNCHANGED archive_vars

Step(t) ==
    \/ StartAdd(t) \/ StartEncode(t) \/ StartDecode(t)
    \/ AddLock(t) \/ AddEmplaceId(t) \/ AddEmplaceType(t) \/ AddUnlock(t)
    \/ SharedLock(t) \/ EncodeFindType(t) \/ FindMethod(t) \/ SharedUnlock(t)
    \/ MethodDone(t)

NextThreads == \E t \in Threads : Step(t)

SpecThreads == InitPolymorphic /\ [][NextThreads]_vars

\* every thread that can take a step takes one
SpecThreadsFair == SpecThreads /\ \A t \in Threads : WF_vars(Step(t))

---------------------------------------------------------------------------
(* The registries under threads: claims C11 and C12.                       *)

\* the registry that the add calls of log, made one after the other on the
\* registry `which`, build
RECURSIVE Replay(_, _)
Replay(log, which) ==
    IF log = <<>> THEN EmptyRegistry
    ELSE LET e == log[Len(log)]
             r == Replay(SubSeq(log, 1, Len(log) - 1), which)
         IN  IF Touches(e, which) THEN add_type(r, e.type, e.id) ELSE r

\* C11 (as claimed): while a thread holds the shared lock of a registry,
\* every type-to-id entry T -> id it can see comes with the id-to-method
\* entry id -> method of T, and every id-to-method entry id -> method of T
\* comes with the type-to-id entry T -> id.
C11_NoPartialEntry ==
    \A which \in Registries :
        mutex[which].readers # {}
        => /\ \A T \in DOMAIN Registry(which).type_to_id :
                /\ Registry(which).type_to_id[T] \in DOMAIN Registry(which).id_to_method
                /\ Registry(which).id_to_method[Registry(which).type_to_id[T]] = T
           /\ \A id \in DOMAIN Registry(which).id_to_method :
                /\ Registry(which).id_to_method[id] \in DOMAIN Registry(which).type_to_id
                /\ Registry(which).type_to_id[Registry(which).id_to_method[id]] = id

\* C11 (amended): while a thread holds the shared lock of a registry, the
\* registry is what the add calls that returned built one after the other:
\* no add is between its two insertions, and every key of one map has its
\* counterpart key in the other.
C11_AddsAtomicToReaders ==
    \A which \in Registries :
        mutex[which].readers # {}
        => /\ Registry(which) = Replay(addlog, which)
           /\ \A T \in DOMAIN Registry(which).type_to_id :
                Registry(which).type_to_id[T] \in DOMAIN Registry(which).id_to_method
           /\ \A id \in DOMAIN Registry(which).id_to_method :
                Registry(which).id_to_method[id] \in DOMAIN Registry(which).type_to_id

\* A thread looks up in a registry that an earlier add filled, while the
\* other thread has called add on that registry and waits for the mutex.
C11_Witness ==
    \E t, u \in Threads :
        /\ t # u
        /\ frames[t] # <<>> /\ frames[u] # <<>>
        /\ Top(t).pc \in {"find_type", "find_method"}
        /\ t \in mutex[Top(t).which].readers
        /\ At(u, "add", "lock") /\ Top(u).which = Top(t).which
        /\ Registry(Top(t).which) # EmptyRegistry

\* a thread that is running a serialization method (the hook, not a call
\* the hook made) holds no lock of any registry
NoLockInMethod ==
    \A t \in Threads :
        (frames[t] # <<>> /\ Top(t).pc = "method")
        => \A w \in Registries : t \notin mutex[w].readers /\ mutex[w].writer # t

\* a thread that is in no call, also after a throw, holds no lock
NoLockOutside ==
    \A t \in Threads : frames[t] = <<>>
        => \A w \in Registries : t \notin mutex[w].readers /\ mutex[w].writer # t

\* no thread is in a call and no mutex is held
Quiescent ==
    /\ \A t \in Threads : frames[t] = <<>>
    /\ \A w \in Registries : mutex[w] = Unlocked

\* C12: no lock of a registry is held by a thread while it runs a
\* serialization method, nor after a throw; and the calls into the
\* registries, those made by hooks included, all come to their end with
\* every lock released.
C12_LockNotHeldInMethod ==
    /\ [](NoLockInMethod /\ NoLockOutside)
    /\ <>[]Quiescent

\* A hook running inside a serialization method has called add on the
\* registry of that method and holds its exclusive lock.
C12_Witness ==
    \E t \in Threads :
        /\ Len(frames[t]) = 2
        /\ frames[t][1].pc = "method"
        /\ Top(t).op = "add" /\ Top(t).which = frames[t][1].which
        /\ mutex[Top(t).which].writer = t

---------------------------------------------------------------------------
(* The input archives on their own: a memory_view_input_archive over an    *)
(* array, and a memory_input_archive over a vector with the same bytes.    *)

ViewSources ==
    { <<>>, <<1, 2, 3>>, <<1, 2, 3, 4, 5>>, <<1, 2, 3, 4, 5, 6, 7, 8, 9>> }

\* the calls made on the view: <<types, what the targets hold before>>
ViewLoads ==
    { << <<TChar>>, <<7>> >>,
      << <<TInt>>, <<7>> >>,
      << <<TBinary(TChar)>>, << <<9, 9, 9>> >> >>,
      << <<TChar, TInt>>, <<7, 7>> >>,
      << <<TPoint>>, <<Point(5, 6)>> >>,
      << <<TUnique(TPoint)>>, << <<Point(5, 6)>> >> >>,
      << <<TShared(TPoint)>>, << <<>> >> >>,
      << <<TShared(TPoint)>>, << <<Point(5, 6)>> >> >> }

InitView ==
    /\ data \in ViewSources
    /\ out_m_size = Len(data)
    /\ in_m_offset = 0
    /\ data0 = data
    /\ hist = <<>>
    /\ view = ViewOver(data)
    /\ InitRegistry

\* view(items...)
ViewLoad(ts, olds) ==
    \E r \in {ViewCall(view, reg_loading, ts, olds)} :
    /\ view' = [input |-> r.input, m_offset |-> r.m_offset]
    /\ hist' = Append(hist, [op |-> "view", ts |-> ts, vs |-> r.v, olds |-> olds,
                             before |-> view.input, pre |-> view.m_offset,
                             after |-> r.input, err |-> r.err, n |-> r.m_offset,
                             made |-> r.made, freed |-> r.freed])
    /\ UNCHANGED <<data, out_m_size, in_m_offset, data0>>
    /\ UNCHANGED registry_vars
    /\ UNCHANGED thread_vars

ViewLoadCall ==
    /\ Len(hist) < MaxOps
    /\ \E c \in ViewLoads : ViewLoad(c[1], c[2])

NextView == ViewLoadCall \/ LoadCall

SpecView == InitView /\ [][NextView]_vars


---------------------------------------------------------------------------
(* Failures of saves and loads: claims C13 to C19.                         *)

\* C13 (as claimed): a top-level save of one owning handle that holds
\* nothing fails with attempt_to_serialize_null_pointer_error and leaves the
\* vector at the length it had before the call.
C13_NullRejected ==
    \A i \in 1..Len(hist) :
        ( /\ IsSave(hist[i]) /\ Len(hist[i].ts) = 1
          /\ hist[i].ts[1][1] \in HandleKinds
          /\ hist[i].vs[1] = <<>> )
        => /\ hist[i].err = "attempt_to_serialize_null_pointer"
           /\ Len(hist[i].after) = Len(hist[i].before)

\* C14 (as claimed): a top-level save of one handle that holds a
\* polymorphic object whose type is not in the registry fails with
\* undeclared_polymorphic_type_error and leaves the vector at the length it
\* had before the call.
C14_UndeclaredOnEncode ==
    \A i \in 1..Len(hist) :
        ( /\ IsSave(hist[i]) /\ Len(hist[i].ts) = 1
          /\ hist[i].ts[1][1] \in HandleKinds
          /\ IsPolymorphic(hist[i].ts[1][2])
          /\ hist[i].vs[1] # <<>>
          /\ hist[i].vs[1][1][1] \notin DOMAIN reg_saving.type_to_id )
        => /\ hist[i].err = "undeclared_polymorphic_type"
           /\ Len(hist[i].after) = Len(hist[i].before)

\* C15: a polymorphic load that reads an identifier which is not a key of
\* the id-to-method map fails with undeclared_polymorphic_type_error,
\* constructs no object and leaves the handle holding what it held.
C15_UndeclaredOnDecode ==
    (last.op = "load" /\ last.id \notin DOMAIN reg_loading.id_to_method)
    => /\ last.err = "undeclared_polymorphic_type"
       /\ last.made = 0
       /\ last.loaded = last.old

\* A handle that held an object was loaded from an identifier that is
\* registered for saving but not for loading.
C15_Witness ==
    /\ last.op = "load"
    /\ last.id \notin DOMAIN reg_loading.id_to_method
    /\ last.id \in DOMAIN reg_saving.id_to_method
    /\ reg_loading # EmptyRegistry
    /\ last.old # <<>>
    /\ last.loaded = last.old

\* the last call loaded an identifier whose registered type is not the
\* type of the handle nor derived from it
Mismatch ==
    /\ last.op = "load"
    /\ last.id \in DOMAIN reg_loading.id_to_method
    /\ ~IsBaseOf(last.t[2][2], reg_loading.id_to_method[last.id])

\* C16: a polymorphic load whose identifier is registered for a type that
\* cannot be cast to the type of the handle fails with
\* polymorphic_type_mismatch_error, the one object it constructed is deleted
\* once, and the handle holds what it held; a load that fails in any way
\* leaves no constructed object alive and the handle as it was, and a load
\* that succeeds hands the one constructed object to the handle.
C16_MismatchOnLoad ==
    /\ Mismatch
        => /\ last.err = "polymorphic_type_mismatch"
           /\ last.made = 1 /\ last.freed = 1
           /\ last.loaded = last.old
    /\ (last.op = "load" /\ last.err # NoError)
        => /\ last.freed = last.made
           /\ last.loaded = last.old
    /\ (last.op = "load" /\ last.err = NoError)
        => /\ last.made = 1 /\ last.freed = 0
           /\ last.loaded # <<>>
           /\ last.loaded[1][1] = reg_loading.id_to_method[last.id]

\* The identifier of person was loaded into a shared_ptr<student> that held
\* a student.
C16_Witness ==
    /\ Mismatch
    /\ last.t = TShared(TStudent)
    /\ last.old # <<>>
    /\ last.err = "polymorphic_type_mismatch"
    /\ last.made = 1

IsView(c) == c.op = "view"

\* the number of bytes one read of a fundamental, or of a raw run into the
\* elements of old, asks for
ReadSize(t, old) ==
    IF t[1] = "binary" THEN Len(old) * SizeOf(t[2]) ELSE t[2]

\* C17: on a memory_view_input_archive a read of n bytes with fewer than n
\* bytes after the offset throws out_of_range, leaves the destination as it
\* was and the offset where it was; and no load changes the bytes viewed.
C17_ViewOutOfRange ==
    /\ view.input = data0
    /\ \A i \in 1..Len(hist) :
        IsView(hist[i])
        => /\ hist[i].after = hist[i].before
           /\ ( /\ Len(hist[i].ts) = 1
                /\ hist[i].ts[1][1] \in {"fundamental", "binary"}
                /\ Len(hist[i].before) - hist[i].pre
                        < ReadSize(hist[i].ts[1], hist[i].olds[1]) )
              => /\ hist[i].err = "out_of_range"
                 /\ hist[i].vs = hist[i].olds
                 /\ hist[i].n = hist[i].pre

\* A read from the middle of the array asked for more bytes than the ones
\* that were left, and some were left.
C17_Witness ==
    \E i \in 1..Len(hist) :
        /\ IsView(hist[i]) /\ Len(hist[i].ts) = 1
        /\ hist[i].err = "out_of_range"
        /\ hist[i].pre > 0
        /\ Len(hist[i].before) > hist[i].pre
        /\ hist[i].olds[1] # 0

\* C18: after a successful load of one fundamental of n bytes the offset of
\* a view has advanced by n and the value is that of the n bytes at the old
\* offset; through memory_input_archive the n bytes at the front of the
\* vector are erased, the others stay as they are, the offset is zero, and
\* the value is that of the first n bytes: a load starts at byte zero of
\* what the load before it left.
C18_CursorAdvance ==
    /\ in_m_offset = 0
    /\ \A i \in 1..Len(hist) :
        ( /\ Succeeded(hist[i]) /\ Len(hist[i].ts) = 1
          /\ hist[i].ts[1][1] = "fundamental" )
        => /\ IsView(hist[i])
                => /\ hist[i].n = hist[i].pre + hist[i].ts[1][2]
                   /\ hist[i].vs[1] =
                        FromBytes(SubSeq(hist[i].before, hist[i].pre + 1, hist[i].n))
           /\ IsLoad(hist[i])
                => /\ hist[i].n = hist[i].ts[1][2]
                   /\ hist[i].after = Drop(hist[i].before, hist[i].ts[1][2])
                   /\ hist[i].vs[1] = FromBytes(Take(hist[i].before, hist[i].ts[1][2]))
                   /\ (i > 1 /\ IsLoad(hist[i - 1]))
                        => hist[i].before = hist[i - 1].after

\* Two loads of an int through memory_input_archive, one after the other,
\* gave different values, and a view has loaded from an offset above zero.
C18_Witness ==
    /\ \E i \in 1..(Len(hist) - 1) :
        /\ IsLoad(hist[i]) /\ IsLoad(hist[i + 1])
        /\ Succeeded(hist[i]) /\ Succeeded(hist[i + 1])
        /\ hist[i].ts = <<TInt>> /\ hist[i + 1].ts = <<TInt>>
        /\ hist[i].vs # hist[i + 1].vs
    /\ \E i \in 1..Len(hist) :
        /\ IsView(hist[i]) /\ Succeeded(hist[i])
        /\ hist[i].ts[1][1] = "fundamental"

\* the sizes of the reads a load of an item of type t makes, in order
RECURSIVE ReadsOf(_)
ReadsOf(t) ==
    CASE t[1] \in {"fundamental", "enum"} -> <<t[2]>>
      [] t = TPoint -> <<SizeOfInt, SizeOfInt>>
      [] t[1] \in HandleKinds -> ReadsOf(t[2])

\* the bytes consumed by reads, made in order from avail bytes, up to the
\* first that asks for more than is left
RECURSIVE Consumed(_, _)
Consumed(reads, avail) ==
    IF reads = <<>> \/ Head(reads) > avail THEN 0
    ELSE Head(reads) + Consumed(Tail(reads), avail - Head(reads))

\* C19: when a top-level load through memory_input_archive fails, the
\* bytes consumed before the failure, and only they, are erased from the
\* front of the vector, the offset is zero, the caller gets the error, and
\* the load after it works on what was left.
C19_FailedLoadErasesConsumed ==
    /\ in_m_offset = 0
    /\ \A i \in 1..Len(hist) :
        (IsLoad(hist[i]) /\ ~Succeeded(hist[i]))
        => /\ hist[i].err = "out_of_range"
           /\ hist[i].n = Consumed(Flatten([k \in 1..Len(hist[i].ts) |->
                                                ReadsOf(hist[i].ts[k])]),
                                   Len(hist[i].before))
           /\ hist[i].after = Drop(hist[i].before, hist[i].n)
           /\ (i < Len(hist) /\ IsLoad(hist[i + 1]))
                => hist[i + 1].before = hist[i].after

\* A load failed after it had consumed some bytes, left some, and another
\* load followed.
C19_Witness ==
    \E i \in 1..(Len(hist) - 1) :
        /\ IsLoad(hist[i]) /\ ~Succeeded(hist[i])
        /\ hist[i].n > 0
        /\ hist[i].after # <<>>
        /\ IsLoad(hist[i + 1])

---------------------------------------------------------------------------
(* The length prefix of containers of every size: claim C20.  A container  *)
(* is given by its size and the element it repeats, as std::string(n, c)   *)
(* is; the size is a std::size_t held as its bytes in host order, so that  *)
(* sizes past 32 bits can be written down.  What a save writes is given    *)
(* the same way: the bytes of the prefix, then count times the bytes of    *)
(* one element.                                                            *)

SizeOfSizeT == 8            \* std::size_t, what container.size() returns

ZeroExtend(bs, n) == bs \o [i \in 1..(n - Len(bs)) |-> 0]

\* static_cast<size_type>(n) of a std::size_t: the value modulo 2^32, which
\* is the low bytes of its representation.
static_cast_size_type(sz) == Take(sz, SizeOfSizeType)

\* container.size() of the containers saved
ContainerSizes ==
    { <<b0, b1, 0, 0, b4, 0, 0, 0>> : b0 \in 0..3, b1 \in {0, 1}, b4 \in {0, 1, 2} }

\* <<type, element>> of the containers saved
SizedContainers ==
    { <<TString, 97>>, <<TVectorInt, 1337>>, <<TVectorEnum, 2>>,
      <<TListInt, 1337>>, <<TVectorPoint, Point(1, 2)>> }

\* what archive(item) writes for one element
ItemBytes(reg, t, item) ==
    SaveItem([output |-> <<>>, m_size |-> 0, err |-> NoError], reg, t, item).output

\* serialize of a resizable container, saving, per element: the size cast
\* to size_type, then every element of the container.
SaveSizedResizable(reg, t, sz, item) ==
    [prefix |-> static_cast_size_type(sz),
     count |-> sz,
     item |-> ItemBytes(reg, t[2], item)]

\* serialize of a resizable, contiguous container of fundamentals, saving:
\* the size cast to size_type, nothing more when that is zero, otherwise
\* as_binary over that many elements.
SaveSizedContiguous(reg, t, sz, item) ==
    LET size == static_cast_size_type(sz)
    IN  [prefix |-> size,
         count |-> IF size = ZeroExtend(<<>>, SizeOfSizeType)
                   THEN ZeroExtend(<<>>, SizeOfSizeT)
                   ELSE ZeroExtend(size, SizeOfSizeT),
         item |-> ToBytes(item, SizeOf(t[2]))]

\* out(container)
SaveSized(t, sz, item) ==
    \E r \in {IF SavingContiguous(t) THEN SaveSizedContiguous(reg_saving, t, sz, item)
              ELSE SaveSizedResizable(reg_saving, t, sz, item)} :
    /\ last' = [op |-> "save_sized", t |-> t, size |-> sz,
                prefix |-> r.prefix, count |-> r.count, item |-> r.item]
    /\ UNCHANGED <<reg_saving, reg_loading, addlog>>
    /\ UNCHANGED archive_vars
    /\ UNCHANGED thread_vars

SaveSizedCall ==
    \E c \in SizedContainers, sz \in ContainerSizes : SaveSized(c[1], sz, c[2])

NextLength == SaveSizedCall

SpecLength == InitPolymorphic /\ [][NextLength]_vars

\* C20: the first four bytes a save of a resizable container writes are the
\* 32-bit encoding of its size, whatever the size: read back as an unsigned
\* number they give container.size().
C20_LengthPrefix ==
    last.op = "save_sized"
    => /\ Len(last.prefix) = SizeOfSizeType
       /\ ZeroExtend(last.prefix, SizeOfSizeT) = last.size

\* The prefix is the size modulo 2^32: it gives the size of every container
\* of fewer than 2^32 elements; on the contiguous path the elements written
\* are as many as the prefix says, on the per element path as many as the
\* container has.
C20_PrefixIsSizeModulo ==
    last.op = "save_sized"
    => /\ last.prefix = Take(last.size, SizeOfSizeType)
       /\ Drop(last.size, SizeOfSizeType) = ZeroExtend(<<>>, SizeOfSizeT - SizeOfSizeType)
            => ZeroExtend(last.prefix, SizeOfSizeT) = last.size
       /\ SavingContiguous(last.t) => last.count = ZeroExtend(last.prefix, SizeOfSizeT)
       /\ ~SavingContiguous(last.t) => last.count = last.size

---------------------------------------------------------------------------
(* make_id: the serialization id of a name.  The unsigned integers of the  *)
(* code are sequences of bits, most significant first, so that 32 and 64   *)
(* bit values keep their width; arithmetic on them is modulo 2^width.      *)

MaxNameLen == 66            \* the longest name of the run of lengths

\* F(x), the argument evaluated before the call as C++ evaluates it
Apply(F(_), x) == CHOOSE r \in {F(v) : v \in {x}} : TRUE

\* the bits of x, 0 <= x < 2^31, in a type of n bits
ToBits(x, n) ==
    [i \in 1..n |-> IF n - i > 30 THEN 0 ELSE (x \div (2 ^ (n - i))) % 2] \o <<>>

RECURSIVE FromBits(_)
FromBits(bs) ==
    IF bs = <<>> THEN 0
    ELSE 2 * FromBits(SubSeq(bs, 1, Len(bs) - 1)) + bs[Len(bs)]

\* a 32 bit literal, by its two halves: 0x67452301 is Word(26437, 8961)
Word(hi, lo) == ToBits(hi, 16) \o ToBits(lo, 16)
Zero32 == ToBits(0, 32)

\* ^, &, |, ~ of two values of one width
Xor(a, b) == [i \in 1..Len(a) |-> (a[i] + b[i]) % 2] \o <<>>
And(a, b) == [i \in 1..Len(a) |-> a[i] * b[i]] \o <<>>
Or(a, b) == [i \in 1..Len(a) |-> IF a[i] + b[i] > 0 THEN 1 ELSE 0] \o <<>>
Not(a) == [i \in 1..Len(a) |-> 1 - a[i]] \o <<>>

\* the conversion to a narrower unsigned type and its counterpart
Low(a, n) == SubSeq(a, Len(a) - n + 1, Len(a))
High(a, n) == SubSeq(a, 1, n)
Widen(a, n) == ToBits(0, n - Len(a)) \o a

\* + of two std::uint32_t, modulo 2^32: the low halves, then the high
\* halves with the carry
Plus(a, b) ==
    ToBits((FromBits(High(a, 16)) + FromBits(High(b, 16))
            + (FromBits(Low(a, 16)) + FromBits(Low(b, 16))) \div 65536) % 65536, 16)
    \o ToBits((FromBits(Low(a, 16)) + FromBits(Low(b, 16))) % 65536, 16)

\* << and >> of an unsigned value, in its own width
ShiftLeft(a, n) == SubSeq(a, n + 1, Len(a)) \o ToBits(0, n)
ShiftRight(a, n) == ToBits(0, n) \o SubSeq(a, 1, Len(a) - n)

\* the bytes of a value as they lie in memory on the little-endian host
BytesLE(v) ==
    [i \in 1..(Len(v) \div 8) |->
        FromBits(SubSeq(v, Len(v) - 8 * i + 1, Len(v) - 8 * i + 8))] \o <<>>

\* rotate_left that drops the bits shifted out.
rotate_left_NoWrap(number, count) == ShiftLeft(number, count)

\* detail::rotate_left
rotate_left(number, count) ==
    Or(ShiftLeft(number, count), ShiftRight(number, Len(number) - count))

\* detail::swap_byte_order, the overload of each width
swap_byte_order_8(value) == value

swap_byte_order_16(value) ==
    Low(Or(ShiftLeft(Widen(swap_byte_order_8(Low(value, 8)), 32), 8),
           Widen(swap_byte_order_8(Low(ShiftRight(value, 8), 8)), 32)), 16)

swap_byte_order_32(value) ==
    Or(ShiftLeft(Widen(swap_byte_order_16(Low(value, 16)), 32), 16),
       Widen(swap_byte_order_16(Low(ShiftRight(value, 16), 16)), 32))

swap_byte_order_64(value) ==
    Or(ShiftLeft(Widen(swap_byte_order_32(Low(value, 32)), 64), 32),
       Widen(swap_byte_order_32(Low(ShiftRight(value, 32), 32)), 64))

\* aligned_message_size that leaves out the terminator counted in size.
aligned_message_size_Short(size) == ((((size - 1) + 8) + 63) \div 64) * 64

\* make_id: aligned_message_size, size being the length of the name plus
\* one for the terminator of the literal
aligned_message_size(size) == (((size + 8) + 63) \div 64) * 64

\* make_id: message_size, a std::uint64_t
message_size(size) == Widen(ToBits((size - 1) * 8, 32), 64)

\* std::uint32_t(v) << ((sizeof(std::uint32_t) - 1 - (i % 4)) * 8), swapped
InWord(v, i) == swap_byte_order_32(ShiftLeft(ToBits(v, 32), (3 - (i % 4)) * 8))

\* what the loop over the name ors into a word for the character at i
CharAt(name, i) == IF i < Len(name) THEN InWord(name[i + 1], i) ELSE Zero32

\* make_id: the indices of preprocessed_message it writes
MessageIndices(name) ==
    LET size == Len(name) + 1
        n == aligned_message_size(size) \div 4
    IN  {i \div 4 : i \in 0..(size - 2)} \cup {(size - 1) \div 4, n - 2, n - 1}

\* make_id: preprocessed_message, an array of aligned_message_size / 4
\* words, indexed from 0: the characters, the byte 0x80, the length
preprocessed_message(name) ==
    LET size == Len(name) + 1
        n == aligned_message_size(size) \div 4
        m1 == [k \in 0..(n - 1) |->
                 Or(Or(CharAt(name, 4 * k), CharAt(name, 4 * k + 1)),
                    Or(CharAt(name, 4 * k + 2), CharAt(name, 4 * k + 3)))]
        m2 == [m1 EXCEPT ![(size - 1) \div 4] = Or(@, InWord(128, size - 1))]
        m3 == [m2 EXCEPT ![n - 2] =
                 swap_byte_order_32(Low(ShiftRight(message_size(size), 32), 32))]
    IN  [m3 EXCEPT ![n - 1] = swap_byte_order_32(Low(message_size(size), 32))]

\* the array as it lies in memory
MessageBytes(name) ==
    Flatten([k \in 1..(aligned_message_size(Len(name) + 1) \div 4) |->
                BytesLE(preprocessed_message(name)[k - 1])])

\* make_id: w[j] for j >= 16; w is a sequence, w[j] of the code is w[j + 1]
Schedule(w, j) ==
    swap_byte_order_32(rotate_left(swap_byte_order_32(
        Xor(Xor(w[j - 2], w[j - 7]), Xor(w[j - 13], w[j - 15]))), 1))

RECURSIVE ExtendTo(_, _)
ExtendTo(w, n) ==
    IF Len(w) >= n THEN w ELSE ExtendTo(Append(w, Schedule(w, Len(w))), n)

\* make_id: the sixteen words extended into eighty
Extend(w) == ExtendTo(ExtendTo(ExtendTo(ExtendTo(w, 32), 48), 64), 80)

\* make_id: f and k of round j
RoundF(j, b, c, d) ==
    IF j <= 19 THEN Or(And(b, c), And(Not(b), d))
    ELSE IF j <= 39 THEN Xor(Xor(b, c), d)
    ELSE IF j <= 59 THEN Or(Or(And(b, c), And(b, d)), And(c, d))
    ELSE Xor(Xor(b, c), d)

RoundK(j) ==
    IF j <= 19 THEN Word(23170, 31129)
    ELSE IF j <= 39 THEN Word(28377, 60321)
    ELSE IF j <= 59 THEN Word(36635, 48348)
    ELSE Word(51810, 49622)

\* make_id: one pass of the main loop; s is <<j, a, b, c, d, e>>
Round(s, w) ==
    <<s[1] + 1,
      Plus(Plus(Plus(Plus(rotate_left(s[2], 5), RoundF(s[1], s[3], s[4], s[5])),
                     s[6]), RoundK(s[1])),
           swap_byte_order_32(w[s[1] + 1])),
      s[2], rotate_left(s[3], 30), s[4], s[5]>>

RECURSIVE RoundsTo(_, _, _)
RoundsTo(s, w, n) == IF s[1] >= n THEN s ELSE RoundsTo(Round(s, w), w, n)

\* make_id: the main loop, for (j = 0; j < 80; ++j)
Rounds(h, w) ==
    RoundsTo(RoundsTo(RoundsTo(RoundsTo(<<0>> \o h, w, 20), w, 40), w, 60), w, 80)

\* make_id: one 512 bit chunk: h0 += a; ... h4 += e
AddRounds(h, s) ==
    <<Plus(h[1], s[2]), Plus(h[2], s[3]), Plus(h[3], s[4]),
      Plus(h[4], s[5]), Plus(h[5], s[6])>>

Chunk(h, m16) ==
    Apply(LAMBDA s : AddRounds(h, s),
          Apply(LAMBDA w : Rounds(h, w), Extend(m16)))

RECURSIVE Chunks(_, _, _)
Chunks(h, m, i) ==
    IF Len(h) = 0 \/ i >= Len(m) THEN h
    ELSE Chunks(Chunk(h, SubSeq(m, i + 1, i + 16)), m, i + 16)

\* make_id: h0 .. h4 at the start
InitialHash ==
    <<Word(26437, 8961), Word(61389, 43913), Word(39098, 56574),
      Word(4146, 21622), Word(50130, 57840)>>

\* make_id(name): the id, a std::uint64_t
make_id(name) ==
    LET p == preprocessed_message(name)
        m == [k \in 1..(aligned_message_size(Len(name) + 1) \div 4) |-> p[k - 1]] \o <<>>
    IN  Apply(LAMBDA h : swap_byte_order_64(Or(ShiftLeft(Widen(h[1], 64), 32),
                                               Widen(h[2], 64))),
              Chunks(InitialHash, m, 0))

\* The names: "v1::person" and "v1::student" of the example, "abc", and
\* one name of every length up to MaxNameLen.
NamePerson == <<118, 49, 58, 58, 112, 101, 114, 115, 111, 110>>
NameStudent == <<118, 49, 58, 58, 115, 116, 117, 100, 101, 110, 116>>
NameAbc == <<97, 98, 99>>
Names ==
    {NamePerson, NameStudent, NameAbc}
    \cup {[i \in 1..len |-> 97 + (i % 26)] \o <<>> : len \in 0..MaxNameLen}

InitNames ==
    /\ data = <<>>
    /\ out_m_size = 0
    /\ in_m_offset = 0
    /\ data0 = <<>>
    /\ hist = <<>>
    /\ view = ViewOver(<<>>)
    /\ reg_saving = EmptyRegistry
    /\ reg_loading = EmptyRegistry
    /\ addlog = <<>>
    /\ last \in {[op |-> "name", name |-> name] : name \in Names}
    /\ mutex = [which \in Registries |-> Unlocked]
    /\ frames = [t \in Threads |-> <<>>]
    /\ calls = 0

\* constexpr id_type id = make_id("...")
MakeId ==
    /\ last.op = "name"
    /\ \E id \in {make_id(last.name)}, m \in {MessageBytes(last.name)} :
        last' = [op |-> "make_id", name |-> last.name, id |-> id,
                 message |-> m, indices |-> MessageIndices(last.name)]
    /\ UNCHANGED <<reg_saving, reg_loading, addlog>>
    /\ UNCHANGED archive_vars
    /\ UNCHANGED thread_vars

NextId == MakeId

SpecId == InitNames /\ [][NextId]_vars

---------------------------------------------------------------------------
(* SHA-1 as the standard gives it: the message padded to a multiple of 64  *)
(* bytes, words read big-endian, Ch, Parity and Maj, the digest the five   *)
(* words in order.                                                          *)

\* x in four bytes, most significant first
BigEndian32(x) == [i \in 1..SizeOfInt |-> ToBytes(x, SizeOfInt)[SizeOfInt + 1 - i]] \o <<>>

Sha1Pad(name) ==
    name \o <<128>>
    \o [i \in 1..((64 - ((Len(name) + 9) % 64)) % 64) |-> 0]
    \o <<0, 0, 0, 0>> \o BigEndian32(Len(name) * 8)

Sha1Word(bs) == ToBits(bs[1], 8) \o ToBits(bs[2], 8) \o ToBits(bs[3], 8) \o ToBits(bs[4], 8)

Sha1Rotl(x, n) == SubSeq(x, n + 1, Len(x)) \o SubSeq(x, 1, n)

RECURSIVE Sha1ScheduleTo(_, _)
Sha1ScheduleTo(w, n) ==
    IF Len(w) >= n THEN w
    ELSE Sha1ScheduleTo(
            Append(w, Sha1Rotl(Xor(Xor(w[Len(w) - 2], w[Len(w) - 7]),
                                   Xor(w[Len(w) - 13], w[Len(w) - 15])), 1)), n)

Sha1F(t, x, y, z) ==
    IF t <= 19 THEN Xor(And(x, y), And(Not(x), z))
    ELSE IF t <= 39 \/ t >= 60 THEN Xor(Xor(x, y), z)
    ELSE Xor(Xor(And(x, y), And(x, z)), And(y, z))

Sha1Step(s, w) ==
    <<s[1] + 1,
      Plus(Plus(Plus(Plus(Sha1Rotl(s[2], 5), Sha1F(s[1], s[3], s[4], s[5])), s[6]),
                RoundK(s[1])), w[s[1] + 1]),
      s[2], Sha1Rotl(s[3], 30), s[4], s[5]>>

RECURSIVE Sha1StepsTo(_, _, _)
Sha1StepsTo(s, w, n) == IF s[1] >= n THEN s ELSE Sha1StepsTo(Sha1Step(s, w), w, n)

Sha1Schedule(bs) ==
    Sha1ScheduleTo(Sha1ScheduleTo(Sha1ScheduleTo(Sha1ScheduleTo(
        [t \in 1..16 |-> Sha1Word(SubSeq(bs, 4 * t - 3, 4 * t))] \o <<>>,
        32), 48), 64), 80)

Sha1Steps(h, w) ==
    Sha1StepsTo(Sha1StepsTo(Sha1StepsTo(Sha1StepsTo(<<0>> \o h, w, 20),
                                        w, 40), w, 60), w, 80)

Sha1Block(h, bs) ==
    Apply(LAMBDA s : AddRounds(h, s),
          Apply(LAMBDA w : Sha1Steps(h, w), Sha1Schedule(bs)))

RECURSIVE Sha1Blocks(_, _)
Sha1Blocks(h, bs) ==
    IF Len(h) = 0 \/ bs = <<>> THEN h
    ELSE Sha1Blocks(Sha1Block(h, SubSeq(bs, 1, 64)), SubSeq(bs, 65, Len(bs)))

\* the first eight bytes of SHA-1(name)
Sha1First8(name) ==
    Apply(LAMBDA h : [i \in 1..8 |-> FromBits(SubSeq(h[1] \o h[2], 8 * i - 7, 8 * i))]
                     \o <<>>,
          Sha1Blocks(InitialHash, Sha1Pad(name)))

\* C21: make_id(N) is the 64 bit value whose bytes, least significant
\* first, are the first eight bytes of SHA-1(N); for the empty name, "abc"
\* and the names of the example these are the published digests.
C21_MakeIdIsSha1Prefix ==
    last.op = "make_id"
    => /\ Len(last.id) = 8 * SizeOfIdType
       /\ BytesLE(last.id) = Sha1First8(last.name)
       /\ last.name = <<>> => BytesLE(last.id) = <<218, 57, 163, 238, 94, 107, 75, 13>>
       /\ last.name = NameAbc => BytesLE(last.id) = <<169, 153, 62, 54, 71, 6, 129, 106>>

\* The id of "v1::person" was made, and is the head of its SHA-1 digest.
C21_Witness ==
    /\ last.op = "make_id"
    /\ last.name = NamePerson
    /\ BytesLE(last.id) = <<59, 246, 186, 95, 101, 215, 152, 247>>

\* C27: the padded message of a name of length L is the smallest multiple
\* of 64 bytes that holds L + 9 bytes: the name, the byte 0x80 at offset L,
\* zero bytes, and L * 8 as a 64 bit big-endian number in the last eight
\* bytes; the 0x80 byte lies before the length and every index written is
\* an index of the array.
C27_PaddedMessage ==
    last.op = "make_id"
    => /\ Len(last.message) % 64 = 0
       /\ Len(last.message) >= Len(last.name) + 9
       /\ Len(last.message) - 64 < Len(last.name) + 9
       /\ SubSeq(last.message, 1, Len(last.name)) = last.name
       /\ last.message[Len(last.name) + 1] = 128
       /\ \A i \in (Len(last.name) + 2)..(Len(last.message) - 8) : last.message[i] = 0
       /\ SubSeq(last.message, Len(last.message) - 7, Len(last.message))
            = <<0, 0, 0, 0>> \o BigEndian32(Len(last.name) * 8)
       /\ Len(last.name) + 1 <= Len(last.message) - 8
       /\ \A k \in last.indices : k >= 0 /\ k < Len(last.message) \div 4

\* A name of 55 characters: one block, the byte 0x80 right before the
\* length.
C27_Witness ==
    /\ last.op = "make_id"
    /\ Len(last.name) = 55
    /\ Len(last.message) = 64
    /\ last.message[56] = 128

---------------------------------------------------------------------------
(* Loads into owning handles of a non polymorphic type: claim C22.         *)

IsPlainHandleLoad(c) ==
    /\ c.op \in {"view", "load"}
    /\ Len(c.ts) = 1
    /\ c.ts[1][1] \in {"unique_ptr", "shared_ptr"}
    /\ ~IsPolymorphic(c.ts[1][2])

\* where the load of c started reading
StartOf(c) == IF IsView(c) THEN c.pre ELSE 0

\* the point the eight bytes at offset off of bs encode
PointAt(bs, off) ==
    Point(FromBytes(SubSeq(bs, off + 1, off + SizeOfInt)),
          FromBytes(SubSeq(bs, off + SizeOfInt + 1, off + 2 * SizeOfInt)))

\* C22: a load into a unique_ptr or shared_ptr of a non polymorphic type
\* constructs one object; when the load succeeds the handle holds that
\* object, loaded from the bytes, whatever it held before; when the load
\* of the payload fails the object is deleted and the handle holds what it
\* held before.
C22_PlainHandleLoad ==
    \A i \in 1..Len(hist) :
        IsPlainHandleLoad(hist[i])
        => /\ hist[i].made = 1
           /\ Succeeded(hist[i])
                => /\ hist[i].freed = 0
                   /\ hist[i].vs[1] = <<PointAt(hist[i].before, StartOf(hist[i]))>>
           /\ ~Succeeded(hist[i])
                => /\ hist[i].freed = 1
                   /\ hist[i].vs = hist[i].olds
                   /\ hist[i].err = "out_of_range"

\* A handle that held a point was loaded into twice: once with too few
\* bytes left, once with enough, and then it held another point.
C22_Witness ==
    /\ \E i \in 1..Len(hist) :
        /\ IsPlainHandleLoad(hist[i]) /\ ~Succeeded(hist[i])
        /\ hist[i].olds[1] # <<>>
        /\ Len(hist[i].before) > StartOf(hist[i])
    /\ \E i \in 1..Len(hist) :
        /\ IsPlainHandleLoad(hist[i]) /\ Succeeded(hist[i])
        /\ hist[i].olds[1] # <<>>
        /\ hist[i].vs # hist[i].olds

---------------------------------------------------------------------------
(* Raw binary runs of every count: claim C23.  Counts and byte counts are  *)
(* held as their bytes in host order, as the sizes of the length prefix    *)
(* are, so that the product of a count and an element size can pass 32     *)
(* bits.                                                                   *)

\* bs * k, in as many bytes as bs has: unsigned multiplication modulo
\* 2^(8 * Len(bs))
RECURSIVE TimesBytes(_, _, _)
TimesBytes(bs, k, carry) ==
    IF bs = <<>> THEN <<>>
    ELSE <<(Head(bs) * k + carry) % 256>>
         \o TimesBytes(Tail(bs), k, (Head(bs) * k + carry) \div 256)

\* binary<Item>::size_in_bytes for a count given by its bytes:
\* m_count * sizeof(Item) is computed in std::size_t and returned as
\* size_type
size_in_bytes_wide(m_count, elem) ==
    Take(TimesBytes(ZeroExtend(m_count, SizeOfSizeT), SizeOf(elem), 0), SizeOfSizeType)

\* m_count of the runs transferred, a size_type
BinaryCounts ==
    { <<b0, 0, 0, b3>> : b0 \in 0..3, b3 \in {0, 32, 64, 128, 255} }

\* the element types of the runs: 1, 2, 4 and 8 bytes
TShort == <<"fundamental", 2>>
BinaryElements == {TChar, TShort, TInt, TId}

\* archive::serialize_item(binary<T> &&): the number of bytes handed to
\* serialize of the concrete archive, saving and loading alike
TransferBinary(m_count, elem) == size_in_bytes_wide(m_count, elem)

\* the contiguous path after the length prefix: nothing for size zero,
\* as_binary over container.size() elements otherwise
TransferContiguous(size, elem) ==
    IF size = ZeroExtend(<<>>, SizeOfSizeType) THEN size
    ELSE TransferBinary(static_cast_size_type(ZeroExtend(size, SizeOfSizeT)), elem)

\* archive(as_binary(data, count)) or archive(container), on a saving or on
\* a loading archive
Transfer(dir, kind, m_count, elem) ==
    \E n \in {IF kind = "binary" THEN TransferBinary(m_count, elem)
               ELSE TransferContiguous(m_count, elem)} :
    /\ last' = [op |-> "transfer", dir |-> dir, kind |-> kind, count |-> m_count,
                elem |-> elem, transferred |-> n]
    /\ UNCHANGED <<reg_saving, reg_loading, addlog>>
    /\ UNCHANGED archive_vars
    /\ UNCHANGED thread_vars

TransferCall ==
    \E dir \in {"save", "load"}, kind \in {"binary", "contiguous"},
       m_count \in BinaryCounts, elem \in BinaryElements :
        Transfer(dir, kind, m_count, elem)

NextBinary == TransferCall

SpecBinary == InitPolymorphic /\ [][NextBinary]_vars

\* C23: a raw binary run of count elements, and the elements of a
\* contiguous container of count elements, are transferred as count times
\* sizeof(element) bytes, on save and on load, for every count a size_type
\* can hold.
C23_BinaryTransfersAll ==
    last.op = "transfer"
    => ZeroExtend(last.transferred, SizeOfSizeT)
        = TimesBytes(ZeroExtend(last.count, SizeOfSizeT), SizeOf(last.elem), 0)

\* The bytes transferred are count times sizeof(element) modulo 2^32: all
\* of them as long as the product is below 2^32.
C23_TransfersModulo ==
    last.op = "transfer"
    => /\ last.transferred
            = Take(TimesBytes(ZeroExtend(last.count, SizeOfSizeT), SizeOf(last.elem), 0),
                   SizeOfSizeType)
       /\ last.count[SizeOfSizeType] = 0
            => ZeroExtend(last.transferred, SizeOfSizeT)
                = TimesBytes(ZeroExtend(last.count, SizeOfSizeT), SizeOf(last.elem), 0)

---------------------------------------------------------------------------
(* The overloads chosen for resizable containers: claim C24.  A container  *)
(* of every shape is saved into an empty vector and loaded back.           *)

ShapeElements == {TChar, TInt, TEnum, TPoint, TString}

\* every combination of element, random access iterator, data()
Shapes == {TResizable(e, ra, hd) : e \in ShapeElements, ra \in BOOLEAN, hd \in BOOLEAN}

\* std::deque<int>: random access, no data()
TDequeInt == TResizable(TInt, TRUE, FALSE)

\* an element of type e, made from n
ElementOf(e, n) ==
    CASE e = TPoint -> Point(n, n + 1)
      [] e = TString -> [i \in 1..n |-> 48 + i]
      [] OTHER -> n

\* the containers of shape t that are saved
ShapedValues(t) ==
    { <<>>, <<ElementOf(t[2], 1)>>, <<ElementOf(t[2], 2), ElementOf(t[2], 1)>> }

SaveShaped ==
    /\ hist = <<>>
    /\ \E t \in Shapes : \E v \in ShapedValues(t) : Save(<<t>>, <<v>>)

LoadShaped ==
    /\ Len(hist) = 1
    /\ \E old \in {<<>>, <<ElementOf(hist[1].ts[1][2], 3)>>} : Load(hist[1].ts, <<old>>)

NextDispatch == SaveShaped \/ LoadShaped

SpecDispatch == InitRoundTrip /\ [][NextDispatch]_vars

\* the overloads of serialize for resizable containers a call with a
\* container of shape t can use
SavingOverloads(t) ==
    {h \in {"per_element", "contiguous"} :
        \/ h = "per_element" /\ SavingPerElement(t)
        \/ h = "contiguous" /\ SavingContiguous(t)}

LoadingOverloads(t) ==
    {h \in {"per_element", "contiguous"} :
        \/ h = "per_element" /\ LoadingPerElement(t)
        \/ h = "contiguous" /\ LoadingContiguous(t)}

\* the overload the claim names for shape t
OverloadFor(t) ==
    IF IsFundamentalOrEnum(t[2]) /\ t[3] /\ t[4] THEN "contiguous" ELSE "per_element"

\* C24: for a resizable container of every shape one overload is chosen
\* for saving and one for loading, the same in both directions: the
\* contiguous one when the element is fundamental or an enumeration, the
\* iterator is random access and data() exists, the per element one
\* otherwise; so what was saved can be loaded.
C24_OneOverloadEachWay ==
    \A i \in 1..Len(hist) :
        /\ SavingOverloads(hist[i].ts[1]) = {OverloadFor(hist[i].ts[1])}
        /\ LoadingOverloads(hist[i].ts[1]) = {OverloadFor(hist[i].ts[1])}
        /\ IsLoad(hist[i]) => /\ hist[i].err = NoError
                              /\ hist[i].vs = hist[1].vs

\* The same for every shape but the one with a fundamental or enumeration
\* element, a random access iterator and no data(), which can be saved,
\* per element, and has no loading overload.
C24_AllButNoData ==
    \A i \in 1..Len(hist) :
        /\ SavingOverloads(hist[i].ts[1]) = {OverloadFor(hist[i].ts[1])}
        /\ (IsClass(hist[i].ts[1][2]) \/ ~hist[i].ts[1][3] \/ hist[i].ts[1][4])
            => /\ LoadingOverloads(hist[i].ts[1]) = {OverloadFor(hist[i].ts[1])}
               /\ IsLoad(hist[i]) => /\ hist[i].err = NoError
                                     /\ hist[i].vs = hist[1].vs
        /\ ~(IsClass(hist[i].ts[1][2]) \/ ~hist[i].ts[1][3] \/ hist[i].ts[1][4])
            => /\ LoadingOverloads(hist[i].ts[1]) = {}
               /\ IsLoad(hist[i]) => hist[i].err = NoMatchingFunction

---------------------------------------------------------------------------
(* Associative containers: claims C25 and C26.  A std::set<int> or a       *)
(* std::map<int, int> is saved into an empty vector; a view archive over   *)
(* the vector, or over the vector without its last bytes, then loads it    *)
(* into a container that holds something already.                          *)

AssociativeValues ==
    { <<TSetInt, <<>> >>, <<TSetInt, <<1>> >>, <<TSetInt, <<1, 2>> >>,
      <<TMapIntInt, <<>> >>, <<TMapIntInt, << <<1, 10>> >> >>,
      <<TMapIntInt, << <<1, 10>>, <<2, 20>> >> >> }

\* what the target of the load holds before
AssociativeTargets(t) ==
    IF t = TSetInt THEN { <<>>, <<2>>, <<3>> }
    ELSE { <<>>, << <<1, 99>> >>, << <<3, 30>> >> }

\* the number of bytes a view over the vector may leave out at the end
Shortenings == {0, 1}

SaveAssociativeCall ==
    /\ hist = <<>>
    /\ \E c \in AssociativeValues : Save(<<c[1]>>, <<c[2]>>)

\* memory_view_input_archive in(data.data(), size); in(target);
LoadAssociativeCall ==
    /\ hist # <<>>
    /\ Len(hist) < MaxOps
    /\ \E old \in AssociativeTargets(hist[1].ts[1]) :
       \E cut \in Shortenings :
       \E bad_alloc \in {{}, {1}, {2}} :
       \E r \in {ViewCallWhere(ViewOver(SubSeq(data, 1, Len(data) - cut)),
                               reg_loading, hist[1].ts, <<old>>, bad_alloc)} :
        /\ view' = [input |-> r.input, m_offset |-> r.m_offset]
        /\ hist' = Append(hist, [op |-> "view", ts |-> hist[1].ts, vs |-> r.v,
                                 olds |-> <<old>>, before |-> r.input, pre |-> 0,
                                 after |-> r.input, err |-> r.err,
                                 n |-> r.m_offset, made |-> r.made,
                                 freed |-> r.freed, temps |-> r.temps])
        /\ UNCHANGED <<data, out_m_size, in_m_offset, data0>>
        /\ UNCHANGED registry_vars
        /\ UNCHANGED thread_vars

NextAssociative == SaveAssociativeCall \/ LoadAssociativeCall

SpecAssociative == InitRoundTrip /\ [][NextAssociative]_vars

IsAssociativeLoad(c) == c.op = "view" /\ c.ts[1][1] = "associative"

\* C25: in a load of an associative container every temporary item
\* constructed in the aligned storage is destroyed exactly once, whether
\* its iteration ends with the insertion, with an exception of the load
\* of the item or with an exception of the insertion.
C25_TemporariesDestroyedOnce ==
    \A i \in 1..Len(hist) :
        IsAssociativeLoad(hist[i]) =>
            \A k \in 1..Len(hist[i].temps) : hist[i].temps[k] = 1

\* One load ended when the second insertion threw, after a first item was
\* inserted; another ended when the load of an item ran out of input.
C25_Witness ==
    \E i, j \in 1..Len(hist) :
        /\ IsAssociativeLoad(hist[i]) /\ hist[i].err = "bad_alloc"
        /\ Len(hist[i].temps) = 2 /\ hist[i].vs[1] # hist[i].olds[1]
        /\ IsAssociativeLoad(hist[j]) /\ hist[j].err = "out_of_range"
        /\ Len(hist[j].temps) >= 1

\* C26: a load of the bytes a save of an associative container wrote
\* leaves the target equal to the saved container, whatever the target
\* held before.
C26_LoadReplacesTarget ==
    \A i \in 1..Len(hist) :
        (IsAssociativeLoad(hist[i]) /\ hist[i].err = NoError
            /\ hist[i].before = hist[1].after)
        => hist[i].vs = hist[1].vs

\* What the load does: it equals the saved container when the target was
\* empty, and otherwise keeps every item of the target and adds the saved
\* items whose keys the target does not hold.
C26_LoadInsertsIntoTarget ==
    \A i \in 1..Len(hist) :
        (IsAssociativeLoad(hist[i]) /\ hist[i].err = NoError
            /\ hist[i].before = hist[1].after)
        => /\ hist[i].olds[1] = <<>> => hist[i].vs = hist[1].vs
           /\ \A k \in 1..Len(hist[i].olds[1]) :
                \E m \in 1..Len(hist[i].vs[1]) :
                    hist[i].vs[1][m] = hist[i].olds[1][k]
           /\ \A k \in 1..Len(hist[1].vs[1]) :
                \E m \in 1..Len(hist[i].vs[1]) :
                    KeyOf(hist[i].vs[1][m], hist[1].ts[1])
                        = KeyOf(hist[1].vs[1][k], hist[1].ts[1])

---------------------------------------------------------------------------
(* The two maps of a registry: claim C28.                                  *)

\* C28: in every state of a registry, also in the middle of an add, every
\* id that is a value of the type-to-id map is a key of the id-to-method
\* map; so when serialize of a saving archive has found the type, its
\* lookup of the id finds a method and the second throw of
\* undeclared_polymorphic_type_error does not happen.
C28_IdsHaveMethods ==
    /\ \A which \in Registries :
        \A Type \in DOMAIN Registry(which).type_to_id :
            Registry(which).type_to_id[Type] \in DOMAIN Registry(which).id_to_method
    /\ \A t \in Threads :
        At(t, "encode", "find_method") =>
            Top(t).id \in DOMAIN reg_saving.id_to_method

\* The saving registry was given a second id for a type it knew, which
\* added the id and kept the type's first id, and a save has found the
\* type and is about to look its id up.
C28_Witness ==
    /\ Cardinality(DOMAIN reg_saving.id_to_method) = 2
    /\ Cardinality(DOMAIN reg_saving.type_to_id) = 1
    /\ \E t \in Threads :
        /\ At(t, "encode", "find_method")
        /\ Top(t).type \in DOMAIN reg_saving.type_to_id

---------------------------------------------------------------------------
(* register_types constructed by threads: claim C29.  Each construction    *)
(* adds its pair to the registry of memory_view_input_archive and then to  *)
(* the registry of lazy_vector_memory_output_archive, the order of         *)
(* builtin_archives; each add takes and releases the lock of its registry. *)

\* register_types<make_type<Type, id>>() is constructed by a thread that
\* is in no call
StartRegisterTypes(t) ==
    /\ calls < MaxCalls
    /\ frames[t] = <<>>
    /\ \E Type \in PolymorphicClasses, id \in Ids :
        frames' = [frames EXCEPT ![t] =
            <<[Frame("register_types", "", Type, id) EXCEPT !.pc = "loading"]>>]
    /\ calls' = calls + 1
    /\ UNCHANGED <<mutex, reg_saving, reg_loading, addlog, last>>
    /\ UNCHANGED archive_vars

\* register_type_to_archive<Archive>() calls add<Type, id>() of the
\* registry of Archive
RegisterTypeToArchive(t, which, next) ==
    /\ At(t, "register_types", which)
    /\ frames' = [frames EXCEPT ![t] =
            Append([@ EXCEPT ![Len(@)].pc = next],
                   Frame("add", which, Top(t).type, Top(t).id))]
    /\ UNCHANGED <<calls, mutex, reg_saving, reg_loading, addlog, last>>
    /\ UNCHANGED archive_vars

\* register_type_to_archives: memory_view_input_archive, then
\* lazy_vector_memory_output_archive
RegisterTypeToArchives(t) ==
    \/ RegisterTypeToArchive(t, "loading", "saving")
    \/ RegisterTypeToArchive(t, "saving", "done")

\* the constructor returns
RegisterTypesDone(t) ==
    /\ At(t, "register_types", "done")
    /\ Return(t)
    /\ UNCHANGED <<calls, mutex, reg_saving, reg_loading, addlog, last>>
    /\ UNCHANGED archive_vars

StepRegister(t) ==
    \/ StartRegisterTypes(t) \/ RegisterTypeToArchives(t) \/ RegisterTypesDone(t)
    \/ AddLock(t) \/ AddEmplaceId(t) \/ AddEmplaceType(t) \/ AddUnlock(t)

NextRegister == \E t \in Threads : StepRegister(t)

SpecRegister == InitPolymorphic /\ [][NextRegister]_vars

\* no construction is under way
AllConstructed == \A t \in Threads : frames[t] = <<>>

\* C29: when the register_types constructions of the threads have
\* returned, the two registries agree for every id: the type whose
\* serialization method the saving registry holds for the id is the type
\* the loading registry constructs for it.
C29_RegistriesAgree ==
    AllConstructed =>
        /\ DOMAIN reg_saving.id_to_method = DOMAIN reg_loading.id_to_method
        /\ \A id \in DOMAIN reg_saving.id_to_method :
            reg_saving.id_to_method[id] = reg_loading.id_to_method[id]

\* What holds in every interleaving: the two registries know the same ids
\* and the same types, and each satisfies the invariant of C28.
C29_SameIdsAndTypes ==
    AllConstructed =>
        /\ DOMAIN reg_saving.id_to_method = DOMAIN reg_loading.id_to_method
        /\ DOMAIN reg_saving.type_to_id = DOMAIN reg_loading.type_to_id
        /\ \A which \in Registries :
            \A Type \in DOMAIN Registry(which).type_to_id :
                Registry(which).type_to_id[Type]
                    \in DOMAIN Registry(which).id_to_method

---------------------------------------------------------------------------
(* The offset of memory_view_input_archive: claim C30.                     *)

IsViewLoad(c) == c.op = "view"

\* C30: after any successful and failed loads on a
\* memory_view_input_archive the offset is between 0 and the size of the
\* input, and no load has copied a byte from behind the input: a load
\* starts at the offset it finds, moves it forward over the bytes it
\* copies and never moves it past the size.
C30_OffsetWithinInput ==
    /\ 0 <= view.m_offset /\ view.m_offset <= Len(view.input)
    /\ \A i \in 1..Len(hist) :
        IsViewLoad(hist[i]) =>
            /\ 0 <= hist[i].pre /\ hist[i].pre <= hist[i].n
            /\ hist[i].n <= Len(hist[i].before)
            /\ hist[i].after = hist[i].before

\* One load threw out_of_range after it had moved the offset forward, and
\* a load moved the offset to the end of the input.
C30_Witness ==
    \E i, j \in 1..Len(hist) :
        /\ IsViewLoad(hist[i]) /\ hist[i].err = "out_of_range"
        /\ hist[i].n > hist[i].pre
        /\ IsViewLoad(hist[j]) /\ hist[j].err = NoError
        /\ hist[j].n > hist[j].pre /\ hist[j].n = Len(hist[j].before)
        /\ view.m_offset = Len(view.input)

=============================================================================
